---- MODULE Spec2Model ----
(***************************************************************************)
(* Extraction / normalisation subsystem of pbi-nl-assistant:               *)
(*   - extract_pbix_metadata, four strategies   (src/debug_app.py)         *)
(*   - extract_pbix_metadata, two strategies    (app/services/pbix_parser) *)
(*   - TMDLParser.parse_project / generate_clean_json (tmdl_parser)        *)
(*   - SchemaManager: extract_from_*, _save_schema, load_schema            *)
(*                                                                         *)
(* JSON values are TLA+ records whose DOMAIN is the set of keys present,   *)
(* so dict.get(key, default) is Get(o, key, default).  A JSON value that   *)
(* is not an object (a number where an object is expected) is NonObj.      *)
(* Python strings that the code takes apart (snapshot ids) are sequences   *)
(* of one-character strings.                                               *)
(***************************************************************************)
EXTENDS Integers, Sequences, FiniteSets, TLC

VARIABLES
    \* ---- one run of extract_pbix_metadata ------------------------------
    variant,    \* "four" (debug_app.py) or "two" (pbix_parser.py)
    xpc,        \* position of the run
    metadata,   \* the shared partial result the strategies append to
    tmpFile,    \* TRUE while the NamedTemporaryFile exists on disk
    status,     \* per strategy: "pending", "absent", "ok" or "failed"
    added,      \* per strategy: how many entries of each array it appended
    xraised,    \* exception that left extract_pbix_metadata, or "none"
    \* ---- SchemaManager and its callers ---------------------------------
    clock,      \* datetime.now(), in seconds after StartSecond
    store,      \* data_dir: snapshot id -> text of <id>.json
    writes,     \* per snapshot id: number of _save_schema calls that wrote it
    pc,         \* per caller: position inside extract_from_*
    req,        \* per caller: the request being served (kind and payload)
    result,     \* per caller: the schema the call returns
    sid,        \* per caller: the schema_id the call saved under
    raised,     \* per caller: exception raised to the caller, or "none"
    ncalls,     \* per caller: extractor invocations made by the current call
    thrown,     \* per caller: exception the extractor raised, or "none"
    started,    \* extraction calls begun so far
    \* ---- readers of the snapshot store ---------------------------------
    answer,     \* what the latest load_schema / list_schemas call returned
    \* ---- one TMDLParser object -----------------------------------------
    tpc,        \* "none" before TMDLParser(...), then the step taken last
    tdir,       \* the project directory self.base_dir names
    parser,     \* self.model_info, self.tables_info, self.relationships
    tret,       \* outcome of the method called last, and the directory it ran on
    tprev       \* outcome of the method called before that one

xvars == <<variant, xpc, metadata, tmpFile, status, added, xraised>>
mvars == <<clock, store, writes, pc, req, result, sid, raised, ncalls, thrown, started>>
qvars == <<answer>>
tvars == <<tpc, tdir, parser, tret, tprev>>
vars == <<variant, xpc, metadata, tmpFile, status, added, xraised,
          clock, store, writes, pc, req, result, sid, raised, ncalls, thrown, started,
          answer, tpc, tdir, parser, tret, tprev>>

(***************************************************************************)
(* Bounds of the model                                                     *)
(***************************************************************************)
MaxItems == 2        \* longest list inside a JSON entry of a package
MaxTicks == 2        \* seconds the clock may advance
MaxCalls == 2        \* extraction calls started in one behaviour

(***************************************************************************)
(* JSON values and Python helpers                                          *)
(***************************************************************************)
NonObj == [pytype |-> "int"]
IsDict(v) == "pytype" \notin DOMAIN v
Has(o, k) == k \in DOMAIN o
Get(o, k, d) == IF k \in DOMAIN o THEN o[k] ELSE d

SeqsUpTo(S, n) == UNION {[1..k -> S] : k \in 0..n}
AllDicts(s) == \A i \in 1..Len(s) : IsDict(s[i])

EmptyMetadata == [tables |-> <<>>, relationships |-> <<>>, visualizations |-> <<>>]

Strategies == {"schema", "datamodel", "connections", "layout"}
NoneAdded == [tables |-> 0, relationships |-> 0, visualizations |-> 0]

\* what a strategy appended: the arrays only grow, so the difference of lengths
Delta(before, after) ==
    [tables |-> Len(after.tables) - Len(before.tables),
     relationships |-> Len(after.relationships) - Len(before.relationships),
     visualizations |-> Len(after.visualizations) - Len(before.visualizations)]

(***************************************************************************)
(* Strategy 1 of debug_app.py: _try_extract_schema                         *)
(***************************************************************************)
schema_columns(cols) ==
    [i \in 1..Len(cols) |-> [name |-> Get(cols[i], "name", ""),
                             dataType |-> Get(cols[i], "dataType", "")]]

schema_measures(ms) ==
    [i \in 1..Len(ms) |-> [name |-> Get(ms[i], "name", ""),
                           expression |-> Get(ms[i], "expression", "")]]

\* table.get / column.get / measure.get raise AttributeError on a non-object
TableItemOk(t) ==
    /\ IsDict(t)
    /\ AllDicts(Get(t, "columns", <<>>))
    /\ AllDicts(Get(t, "measures", <<>>))

table_info(t) ==
    [name |-> Get(t, "name", ""),
     columns |-> schema_columns(Get(t, "columns", <<>>)),
     measures |-> schema_measures(Get(t, "measures", <<>>))]

relationship_of(r) ==
    [fromTable |-> Get(r, "fromTable", ""),
     fromColumn |-> Get(r, "fromColumn", ""),
     toTable |-> Get(r, "toTable", ""),
     toColumn |-> Get(r, "toColumn", "")]

\* for table in tables: ... metadata['tables'].append(table_info)
RECURSIVE schema_tables_loop(_, _)
schema_tables_loop(items, tables) ==
    IF items = <<>> THEN [out |-> tables, ok |-> TRUE]
    ELSE IF ~TableItemOk(Head(items)) THEN [out |-> tables, ok |-> FALSE]
    ELSE schema_tables_loop(Tail(items), Append(tables, table_info(Head(items))))

\* for rel in relationships: ... metadata['relationships'].append(relationship)
RECURSIVE schema_rels_loop(_, _)
schema_rels_loop(items, rels) ==
    IF items = <<>> THEN [out |-> rels, ok |-> TRUE]
    ELSE IF ~IsDict(Head(items)) THEN [out |-> rels, ok |-> FALSE]
    ELSE schema_rels_loop(Tail(items), Append(rels, relationship_of(Head(items))))

\* the body of the try block once json.loads has returned schema_data
schema_body(data, md) ==
    IF ~IsDict(data) THEN [md |-> md, ok |-> FALSE]
    ELSE
      LET model == Get(data, "model", NonObj)
          t == IF Has(data, "model") /\ Has(model, "tables")
               THEN schema_tables_loop(model.tables, md.tables)
               ELSE [out |-> md.tables, ok |-> TRUE]
          r == IF ~t.ok THEN [out |-> md.relationships, ok |-> FALSE]
               ELSE IF Has(data, "model") /\ Has(model, "relationships")
               THEN schema_rels_loop(model.relationships, md.relationships)
               ELSE [out |-> md.relationships, ok |-> TRUE]
      IN [md |-> [md EXCEPT !.tables = t.out, !.relationships = r.out],
          ok |-> r.ok]

\* except Exception: logger.error(...): the strategy ends, what it appended stays
try_extract_schema(entry, md) ==
    IF entry.kind = "absent" THEN [md |-> md, status |-> "absent"]
    ELSE IF entry.kind # "json" THEN [md |-> md, status |-> "failed"]
    ELSE LET b == schema_body(entry.data, md)
         IN [md |-> b.md, status |-> IF b.ok THEN "ok" ELSE "failed"]

(***************************************************************************)
(* Strategy 2 of debug_app.py: _try_extract_from_datamodel                 *)
(* The DataModel entry is given by what the three re.findall scans return  *)
(* on its permissively decoded text: tables is set(findall(...)) in the    *)
(* order Python iterates the set, columns[n] the same for the column       *)
(* pattern built from table name n, rels the list of matched quadruples.   *)
(***************************************************************************)
HasTable(tables, n) == \E i \in 1..Len(tables) : tables[i].name = n

LongerThan1(col) == Len(col) > 1

datamodel_columns(scan, n) ==
    LET cols == SelectSeq(Get(scan.columns, n, <<>>), LongerThan1)
    IN [i \in 1..Len(cols) |-> [name |-> cols[i], dataType |-> "unknown"]]

\* the loop over table_matches without the `if not any(...)` test
RECURSIVE datamodel_tables_loop_unguarded(_, _, _)
datamodel_tables_loop_unguarded(names, scan, tables) ==
    IF names = <<>> THEN tables
    ELSE LET n == Head(names)
             next == IF Len(n) > 2
                     THEN Append(tables, [name |-> n,
                                          columns |-> datamodel_columns(scan, n),
                                          measures |-> <<>>])
                     ELSE tables
         IN datamodel_tables_loop_unguarded(Tail(names), scan, next)

\* for table_name in table_matches: if len(table_name) > 2: if not any(...)
RECURSIVE datamodel_tables_loop(_, _, _)
datamodel_tables_loop(names, scan, tables) ==
    IF names = <<>> THEN tables
    ELSE LET n == Head(names)
             next == IF Len(n) > 2 /\ ~HasTable(tables, n)
                     THEN Append(tables, [name |-> n,
                                          columns |-> datamodel_columns(scan, n),
                                          measures |-> <<>>])
                     ELSE tables
         IN datamodel_tables_loop(Tail(names), scan, next)

HasRel(rels, r) ==
    \E i \in 1..Len(rels) : /\ rels[i].fromTable = r.fromTable
                            /\ rels[i].fromColumn = r.fromColumn
                            /\ rels[i].toTable = r.toTable
                            /\ rels[i].toColumn = r.toColumn

\* for match in rel_matches: ... # Add if not duplicate
RECURSIVE datamodel_rels_loop(_, _)
datamodel_rels_loop(matches, rels) ==
    IF matches = <<>> THEN rels
    ELSE LET m == Head(matches)
             r == [fromTable |-> m[1], fromColumn |-> m[2],
                   toTable |-> m[3], toColumn |-> m[4]]
         IN datamodel_rels_loop(Tail(matches),
                                IF HasRel(rels, r) THEN rels ELSE Append(rels, r))

try_extract_from_datamodel(entry, md) ==
    IF entry.kind = "absent" THEN [md |-> md, status |-> "absent"]
    ELSE IF entry.kind = "corrupt" THEN [md |-> md, status |-> "failed"]
    ELSE [md |-> [md EXCEPT
                    !.tables = datamodel_tables_loop(entry.tables, entry, md.tables),
                    !.relationships = datamodel_rels_loop(entry.rels, md.relationships)],
          status |-> "ok"]

(***************************************************************************)
(* Strategy 3 of debug_app.py: _try_extract_from_connections               *)
(***************************************************************************)
\* ZipExtFile.read() on a stream already read to its end returns b'': the
\* text the fallback scans (lines 222 and 270) is empty, whatever the entry holds
second_read(entry) == [entry EXCEPT !.tokens = <<>>]

connection_columns(cols) ==
    [i \in 1..Len(cols) |-> [name |-> Get(cols[i], "Name", ""),
                             dataType |-> Get(cols[i], "DataType", "unknown")]]

\* for table in tables: name = table.get('Name', ''); if name and not any(...)
RECURSIVE connections_tables_loop(_, _)
connections_tables_loop(items, tables) ==
    IF items = <<>> THEN [out |-> tables, ok |-> TRUE]
    ELSE LET t == Head(items) IN
         IF ~IsDict(t) THEN [out |-> tables, ok |-> FALSE]
         ELSE LET name == Get(t, "Name", "") IN
              IF name # "" /\ ~HasTable(tables, name)
              THEN IF ~AllDicts(Get(t, "Columns", <<>>))
                   THEN [out |-> tables, ok |-> FALSE]
                   ELSE connections_tables_loop(Tail(items),
                            Append(tables, [name |-> name,
                                            columns |-> connection_columns(Get(t, "Columns", <<>>)),
                                            measures |-> <<>>]))
              ELSE connections_tables_loop(Tail(items), tables)

\* for expr in expressions: if 'Name' in expr: ...
RECURSIVE connections_expressions_loop(_, _)
connections_expressions_loop(items, tables) ==
    IF items = <<>> THEN [out |-> tables, ok |-> TRUE]
    ELSE LET e == Head(items) IN
         IF ~IsDict(e) THEN [out |-> tables, ok |-> FALSE]
         ELSE IF Has(e, "Name") /\ e.Name # "" /\ ~HasTable(tables, e.Name)
         THEN connections_expressions_loop(Tail(items),
                  Append(tables, [name |-> e.Name, columns |-> <<>>, measures |-> <<>>]))
         ELSE connections_expressions_loop(Tail(items), tables)

\* except json.JSONDecodeError: scan the text of a second read for table names
RECURSIVE connections_fallback_loop(_, _)
connections_fallback_loop(names, tables) ==
    IF names = <<>> THEN tables
    ELSE LET n == Head(names) IN
         connections_fallback_loop(Tail(names),
             IF Len(n) > 2 /\ ~HasTable(tables, n)
             THEN Append(tables, [name |-> n, columns |-> <<>>, measures |-> <<>>])
             ELSE tables)

try_extract_from_connections(entry, md) ==
    IF entry.kind = "absent" THEN [md |-> md, status |-> "absent"]
    ELSE IF entry.kind = "notutf8" THEN [md |-> md, status |-> "failed"]
    ELSE IF entry.kind = "notjson"
    THEN [md |-> [md EXCEPT !.tables =
                    connections_fallback_loop(second_read(entry).tokens, md.tables)],
          status |-> "ok"]
    ELSE LET data == entry.data
             r == IF ~IsDict(data) THEN [out |-> md.tables, ok |-> FALSE]
                  ELSE IF Has(data, "Tables")
                  THEN connections_tables_loop(data.Tables, md.tables)
                  ELSE IF Has(data, "Expressions")
                  THEN connections_expressions_loop(data.Expressions, md.tables)
                  ELSE [out |-> md.tables, ok |-> TRUE]
         IN [md |-> [md EXCEPT !.tables = r.out],
             status |-> IF r.ok THEN "ok" ELSE "failed"]

(***************************************************************************)
(* Strategy 4 of debug_app.py: _try_extract_from_layout and                *)
(* _process_visual_container; the layout loop of pbix_parser.py            *)
(* A config given as a JSON-encoded string is [pystr |-> "valid", value |-> v] *)
(* or [pystr |-> "invalid"]; a projections mapping is the sequence of its  *)
(* (role, value) items in insertion order, a list value is [pylist |-> s]. *)
(***************************************************************************)
IsStr(c) == "pystr" \in DOMAIN c
IsList(v) == "pylist" \in DOMAIN v
HasQueryRef(p) == Has(p, "queryRef")

role_fields(role, projs) ==
    LET refs == SelectSeq(projs, HasQueryRef)
    IN [i \in 1..Len(refs) |-> [role |-> role, field |-> refs[i].queryRef]]

\* for role, projections in ...['projections'].items(): debug_app.py skips a
\* value that is not a list (isinstance), pbix_parser.py iterates it (TypeError)
RECURSIVE projection_fields(_, _, _)
projection_fields(items, fields, checksList) ==
    IF items = <<>> THEN [out |-> fields, ok |-> TRUE]
    ELSE LET it == Head(items) IN
         IF IsList(it.value)
         THEN projection_fields(Tail(items),
                                fields \o role_fields(it.role, it.value.pylist), checksList)
         ELSE IF checksList THEN projection_fields(Tail(items), fields, checksList)
         ELSE [out |-> fields, ok |-> FALSE]

\* the part both files share once config is known to be present
visual_of_config(config0, vizs, checksList) ==
    IF IsStr(config0) /\ config0.pystr = "invalid" THEN [out |-> vizs, ok |-> TRUE]
    ELSE LET config == IF IsStr(config0) THEN config0.value ELSE config0 IN
         IF ~IsDict(config) THEN [out |-> vizs, ok |-> FALSE]
         ELSE IF ~Has(config, "singleVisual") THEN [out |-> vizs, ok |-> TRUE]
         ELSE LET sv == config.singleVisual
                  f == IF Has(sv, "projections")
                       THEN projection_fields(sv.projections, <<>>, checksList)
                       ELSE [out |-> <<>>, ok |-> TRUE]
              IN IF ~f.ok THEN [out |-> vizs, ok |-> FALSE]
                 ELSE [out |-> Append(vizs, [type |-> Get(sv, "visualType", "unknown"),
                                             fields |-> f.out]),
                       ok |-> TRUE]

process_visual_container(viz_container, vizs) ==
    IF ~IsDict(viz_container) THEN [out |-> vizs, ok |-> FALSE]
    ELSE IF ~Has(viz_container, "config") THEN [out |-> vizs, ok |-> TRUE]
    ELSE visual_of_config(viz_container.config, vizs, TRUE)

pbix_visual_container(viz_container, vizs) ==
    IF ~IsDict(viz_container) THEN [out |-> vizs, ok |-> FALSE]
    ELSE IF ~Has(viz_container, "config") THEN [out |-> vizs, ok |-> TRUE]
    ELSE visual_of_config(viz_container.config, vizs, FALSE)

\* for viz_container in ...['visualContainers']
RECURSIVE containers_loop(_, _, _)
containers_loop(cs, vizs, four) ==
    IF cs = <<>> THEN [out |-> vizs, ok |-> TRUE]
    ELSE LET r == IF four THEN process_visual_container(Head(cs), vizs)
                  ELSE pbix_visual_container(Head(cs), vizs)
         IN IF ~r.ok THEN r ELSE containers_loop(Tail(cs), r.out, four)

\* for section in layout_data['sections']: if 'visualContainers' in section
RECURSIVE sections_loop(_, _, _)
sections_loop(secs, vizs, four) ==
    IF secs = <<>> THEN [out |-> vizs, ok |-> TRUE]
    ELSE LET sec == Head(secs) IN
         IF ~IsDict(sec) THEN [out |-> vizs, ok |-> FALSE]
         ELSE LET r == IF Has(sec, "visualContainers")
                       THEN containers_loop(sec.visualContainers, vizs, four)
                       ELSE [out |-> vizs, ok |-> TRUE]
              IN IF ~r.ok THEN r ELSE sections_loop(Tail(secs), r.out, four)

Lower(s) == CASE s = "NULL" -> "null" [] s = "Undefined" -> "undefined"
              [] s \in {"TRUE", "True"} -> "true" [] OTHER -> s

\* for viz_type in viz_types: if viz_type and viz_type.lower() not in [...]
RECURSIVE layout_fallback_loop(_, _)
layout_fallback_loop(types, vizs) ==
    IF types = <<>> THEN vizs
    ELSE LET t == Head(types) IN
         layout_fallback_loop(Tail(types),
             IF t # "" /\ Lower(t) \notin {"null", "undefined"}
             THEN Append(vizs, [type |-> t, fields |-> <<>>])
             ELSE vizs)

\* one iteration of `for layout_file in layout_files` in debug_app.py
layout_file(entry, vizs) ==
    IF entry.kind = "notutf8" THEN [out |-> vizs, ok |-> FALSE]
    ELSE IF entry.kind = "notjson"
    THEN [out |-> layout_fallback_loop(second_read(entry).tokens, vizs), ok |-> TRUE]
    ELSE LET data == entry.data IN
         IF ~IsDict(data) THEN [out |-> vizs, ok |-> FALSE]
         ELSE IF Has(data, "sections") THEN sections_loop(data.sections, vizs, TRUE)
         ELSE IF Has(data, "visualContainers")
         THEN containers_loop(data.visualContainers, vizs, TRUE)
         ELSE [out |-> vizs, ok |-> TRUE]

\* one iteration of `for layout_file in layout_files` in pbix_parser.py
pbix_layout_file(entry, vizs) ==
    IF entry.kind # "json" THEN [out |-> vizs, ok |-> FALSE]
    ELSE LET data == entry.data IN
         IF ~IsDict(data) THEN [out |-> vizs, ok |-> FALSE]
         ELSE IF Has(data, "sections") THEN sections_loop(data.sections, vizs, FALSE)
         ELSE [out |-> vizs, ok |-> TRUE]

\* every file is tried; a file that fails keeps what it appended before failing
RECURSIVE layout_files_loop(_, _, _)
layout_files_loop(files, acc, four) ==
    IF files = <<>> THEN acc
    ELSE LET r == IF four THEN layout_file(Head(files), acc.out)
                  ELSE pbix_layout_file(Head(files), acc.out)
         IN layout_files_loop(Tail(files), [out |-> r.out, ok |-> acc.ok /\ r.ok], four)

try_extract_from_layout(files, md) ==
    IF files = <<>> THEN [md |-> md, status |-> "absent"]
    ELSE LET r == layout_files_loop(files, [out |-> md.visualizations, ok |-> TRUE], TRUE)
         IN [md |-> [md EXCEPT !.visualizations = r.out],
             status |-> IF r.ok THEN "ok" ELSE "failed"]

(***************************************************************************)
(* pbix_parser.py: the schema block and the layout block                   *)
(***************************************************************************)
\* lines 43-97: the same reading as strategy 1, but nothing is absorbed:
\* `except json.JSONDecodeError: raise`, and any other exception is not caught here
pbix_schema(entry, md) ==
    IF entry.kind = "absent" THEN [md |-> md, exc |-> "none"]
    ELSE IF entry.kind = "notutf8" THEN [md |-> md, exc |-> "UnicodeDecodeError"]
    ELSE IF entry.kind = "notjson" THEN [md |-> md, exc |-> "JSONDecodeError"]
    ELSE LET b == schema_body(entry.data, md)
         IN [md |-> b.md,
             exc |-> IF b.ok THEN "none"
                     ELSE IF ~IsDict(entry.data) THEN "TypeError" ELSE "AttributeError"]

\* lines 99-145
pbix_layout(files, md) ==
    IF files = <<>> THEN [md |-> md, status |-> "absent"]
    ELSE LET r == layout_files_loop(files, [out |-> md.visualizations, ok |-> TRUE], FALSE)
         IN [md |-> [md EXCEPT !.visualizations = r.out],
             status |-> IF r.ok THEN "ok" ELSE "failed"]

(***************************************************************************)
(* Entries a package may hold (the inputs of the strategies)               *)
(***************************************************************************)
Absent == [kind |-> "absent"]
NotUtf8 == [kind |-> "notutf8"]
OtherObj == [version |-> "1"]

ColAmount == [name |-> "Amount", dataType |-> "double"]
MeasTotal == [name |-> "Total", expression |-> "SUM(Sales[Amount])"]
TSales == [name |-> "Sales", columns |-> <<ColAmount>>, measures |-> <<MeasTotal>>]
TBadCol == [name |-> "Cust", columns |-> <<NonObj>>]
SchemaTableItems == {TSales, TBadCol, NonObj}

RSalesCust == [fromTable |-> "Sales", fromColumn |-> "CustId",
               toTable |-> "Cust", toColumn |-> "Id"]
RPartial == [fromTable |-> "Sales"]
SchemaRelItems == {RSalesCust, RPartial, NonObj}

SchemaModels ==
    {[name |-> "Model"]}
    \cup {[tables |-> t] : t \in SeqsUpTo(SchemaTableItems, MaxItems)}
    \cup {[relationships |-> r] : r \in SeqsUpTo(SchemaRelItems, MaxItems)}
    \cup {[tables |-> t, relationships |-> r] :
            t \in SeqsUpTo(SchemaTableItems, MaxItems),
            r \in SeqsUpTo(SchemaRelItems, MaxItems)}

SchemaDocs == {NonObj, OtherObj} \cup {[model |-> m] : m \in SchemaModels}

SchemaEntries ==
    {Absent, NotUtf8, [kind |-> "notjson"]}
    \cup {[kind |-> "json", data |-> d] : d \in SchemaDocs}

NoDupSeqs(S, n) ==
    {q \in SeqsUpTo(S, n) : \A i, j \in 1..Len(q) : i # j => q[i] # q[j]}

TableTokens == {"Sales", "Dates", "T1"}
ColumnScan == [Sales |-> <<"x", "Amount">>, Dates |-> <<"Day">>]
QSalesCust == <<"Sales", "CustId", "Cust", "Id">>
QDatesSales == <<"Dates", "Day", "Sales", "Date">>

DataModelEntries ==
    {Absent, [kind |-> "corrupt"]}
    \cup {[kind |-> "binary", tables |-> t, columns |-> ColumnScan, rels |-> r] :
            t \in NoDupSeqs(TableTokens, MaxItems),
            r \in SeqsUpTo({QSalesCust, QDatesSales}, MaxItems)}

CtSales == [Name |-> "Sales",
            Columns |-> <<[Name |-> "Amount", DataType |-> "double"], [Name |-> "Id"]>>]
CtGeo == [Name |-> "Geo"]
CtNoName == [Schema |-> "dbo"]
ConnTableItems == {CtSales, CtGeo, CtNoName, NonObj}
ConnExprItems == {[Name |-> "Geo"], [Kind |-> "M"], NonObj}

ConnDocs ==
    {NonObj, OtherObj}
    \cup {[Tables |-> t] : t \in SeqsUpTo(ConnTableItems, MaxItems)}
    \cup {[Expressions |-> e] : e \in SeqsUpTo(ConnExprItems, MaxItems)}

ConnEntries ==
    {Absent, NotUtf8}
    \cup {[kind |-> "notjson", tokens |-> <<"Geo">>]}
    \cup {[kind |-> "json", data |-> d] : d \in ConnDocs}

VBar == [config |-> [singleVisual |->
            [visualType |-> "barChart",
             projections |-> <<[role |-> "Category",
                                value |-> [pylist |-> <<[queryRef |-> "Sales.Region"],
                                                        [active |-> "true"]>>]]>>]]]
VStr == [config |-> [pystr |-> "valid",
                     value |-> [singleVisual |->
                                  [projections |-> <<[role |-> "Y", value |-> NonObj]>>]]]]
VBadStr == [config |-> [pystr |-> "invalid"]]
VNoConfig == [x |-> "0"]
VizItems == {VBar, VStr, VBadStr, VNoConfig, NonObj}

LayoutDocs ==
    {NonObj, OtherObj, [sections |-> <<NonObj>>], [sections |-> <<[name |-> "Page"]>>]}
    \cup {[sections |-> <<[visualContainers |-> c]>>] : c \in SeqsUpTo(VizItems, MaxItems)}
    \cup {[visualContainers |-> c] : c \in SeqsUpTo(VizItems, MaxItems)}

LayoutEntries ==
    {NotUtf8}
    \cup {[kind |-> "notjson", tokens |-> <<"pie", "NULL", "pie">>]}
    \cup {[kind |-> "json", data |-> d] : d \in LayoutDocs}

\* no layout entry, one, or one after an entry that cannot be decoded
LayoutFileLists ==
    {<<>>} \cup {<<e>> : e \in LayoutEntries} \cup {<<NotUtf8, e>> : e \in LayoutEntries}

(***************************************************************************)
(* One run of extract_pbix_metadata, step by step                          *)
(***************************************************************************)
InitRun ==
    /\ variant \in {"four", "two"}
    /\ xpc = "init"
    /\ metadata = EmptyMetadata
    /\ tmpFile = FALSE
    /\ status = [s \in Strategies |-> "pending"]
    /\ added = [s \in Strategies |-> NoneAdded]
    /\ xraised = "none"

\* with tempfile.NamedTemporaryFile(delete=False, suffix='.pbix') as tmp_file:
CreateTemp ==
    /\ xpc = "init"
    /\ tmpFile' = TRUE
    /\ xpc' = "tmp_created"
    /\ UNCHANGED <<variant, metadata, status, added, xraised>>
    /\ UNCHANGED <<mvars, qvars, tvars>>

\* tmp_file.write(uploaded_file.getvalue()): getvalue() or the write may raise
\* (a closed upload, a full disk); the with block is outside the try/finally
WriteTemp ==
    /\ xpc = "tmp_created"
    /\ \E ok \in BOOLEAN :
         IF ok THEN xpc' = "tmp_written" /\ xraised' = xraised
         ELSE xpc' = "raised" /\ xraised' = "OSError"
    /\ UNCHANGED <<variant, metadata, tmpFile, status, added>>
    /\ UNCHANGED <<mvars, qvars, tvars>>

\* with zipfile.ZipFile(tmp_path, 'r'): a payload that is no archive raises
\* BadZipFile: except: log, raise; finally: os.unlink(tmp_path)
OpenZip ==
    /\ xpc = "tmp_written"
    /\ \E valid \in BOOLEAN :
         IF valid THEN xpc' = "zip_open" /\ xraised' = xraised /\ tmpFile' = tmpFile
         ELSE xpc' = "raised" /\ xraised' = "BadZipFile" /\ tmpFile' = FALSE
    /\ UNCHANGED <<variant, metadata, status, added>>
    /\ UNCHANGED <<mvars, qvars, tvars>>

\* the effect of a strategy that returned r on the run
Ran(s, r, next) ==
    /\ metadata' = r.md
    /\ status' = [status EXCEPT ![s] = r.status]
    /\ added' = [added EXCEPT ![s] = Delta(metadata, r.md)]
    /\ xpc' = next
    /\ UNCHANGED <<variant, tmpFile, xraised>>
    /\ UNCHANGED <<mvars, qvars, tvars>>

\* a schema strategy that lets its exception leave, as pbix_parser.py does
RunSchema_propagates ==
    /\ variant = "four" /\ xpc = "zip_open"
    /\ \E e \in SchemaEntries :
         LET r == try_extract_schema(e, metadata) IN
         IF r.status # "failed" THEN Ran("schema", r, "after_schema")
         ELSE /\ xpc' = "raised"
              /\ xraised' = "Exception"
              /\ tmpFile' = FALSE
              /\ metadata' = r.md
              /\ status' = [status EXCEPT !["schema"] = "failed"]
              /\ added' = [added EXCEPT !["schema"] = Delta(metadata, r.md)]
              /\ UNCHANGED variant
              /\ UNCHANGED <<mvars, qvars, tvars>>

\* debug_app.py line 44
RunSchema ==
    /\ variant = "four" /\ xpc = "zip_open"
    /\ \E e \in SchemaEntries : Ran("schema", try_extract_schema(e, metadata), "after_schema")

\* debug_app.py line 45
RunDataModel ==
    /\ variant = "four" /\ xpc = "after_schema"
    /\ \E e \in DataModelEntries :
         Ran("datamodel", try_extract_from_datamodel(e, metadata), "after_datamodel")

\* debug_app.py line 46
RunConnections ==
    /\ variant = "four" /\ xpc = "after_datamodel"
    /\ \E e \in ConnEntries :
         Ran("connections", try_extract_from_connections(e, metadata), "after_connections")

\* debug_app.py line 47
RunLayout ==
    /\ variant = "four" /\ xpc = "after_connections"
    /\ \E f \in LayoutFileLists :
         Ran("layout", try_extract_from_layout(f, metadata), "after_layout")

\* pbix_parser.py lines 43-97; an exception leaves through `except Exception:
\* raise` and the finally clause unlinks the temporary file
RunPbixSchema ==
    /\ variant = "two" /\ xpc = "zip_open"
    /\ \E e \in SchemaEntries :
         LET r == pbix_schema(e, metadata) IN
         IF r.exc = "none"
         THEN Ran("schema",
                  [md |-> r.md, status |-> IF e.kind = "absent" THEN "absent" ELSE "ok"],
                  "after_schema")
         ELSE /\ xpc' = "raised"
              /\ xraised' = r.exc
              /\ tmpFile' = FALSE
              /\ metadata' = r.md
              /\ status' = [status EXCEPT !["schema"] = "failed"]
              /\ added' = [added EXCEPT !["schema"] = Delta(metadata, r.md)]
              /\ UNCHANGED variant
              /\ UNCHANGED <<mvars, qvars, tvars>>

\* pbix_parser.py lines 99-145
RunPbixLayout ==
    /\ variant = "two" /\ xpc = "after_schema"
    /\ \E f \in LayoutFileLists : Ran("layout", pbix_layout(f, metadata), "after_layout")

\* finally: os.unlink(tmp_path); return metadata
FinishRun ==
    /\ xpc = "after_layout"
    /\ tmpFile' = FALSE
    /\ xpc' = "returned"
    /\ UNCHANGED <<variant, metadata, status, added, xraised>>
    /\ UNCHANGED <<mvars, qvars, tvars>>

NextRun ==
    \/ CreateTemp
    \/ WriteTemp
    \/ OpenZip
    \/ RunSchema
    \/ RunDataModel
    \/ RunConnections
    \/ RunLayout
    \/ RunPbixSchema
    \/ RunPbixLayout
    \/ FinishRun

\* the SchemaManager does not take part in SpecPbix
ManagerIdle ==
    /\ clock = 0
    /\ store = <<>>
    /\ writes = <<>>
    /\ pc = <<>>
    /\ req = <<>>
    /\ result = <<>>
    /\ sid = <<>>
    /\ raised = <<>>
    /\ ncalls = <<>>
    /\ thrown = <<>>
    /\ started = 0

\* no load_schema or list_schemas call has been made
NoAnswer == [op |-> "none"]
QueryIdle == answer = NoAnswer

\* no TMDLParser object has been constructed
NoDir == [none |-> "dir"]
NoObject == [none |-> "parser"]
NoReturn == [op |-> "none"]
NoParser ==
    /\ tpc = "none"
    /\ tdir = NoDir
    /\ parser = NoObject
    /\ tret = NoReturn
    /\ tprev = NoReturn

InitPbix == InitRun /\ ManagerIdle /\ QueryIdle /\ NoParser

SpecPbix == InitPbix /\ [][NextRun]_vars

(***************************************************************************)
(* TMDLParser (tmdl_parser.py).  A table file is the sequence of its       *)
(* lines, each line a record: kw is the keyword the line starts with       *)
(* ("table", "column", "measure", "partition", "annotation"), "prop" for a *)
(* `key: value` line, "text" for any other line.  The parser reads the     *)
(* text of the lines, without their indentation, and its regular           *)
(* expressions find a keyword wherever it stands in a line.  A             *)
(* relationships file is the sequence of its blocks, a block the record of *)
(* the property lines it holds, each with the text after the colon.  A     *)
(* Python dict that is iterated is the sequence of its (key, value) items  *)
(* in insertion order.                                                     *)
(***************************************************************************)
\* Python's None
None == "<None>"

\* the element of a set of one element: The({F(x) : x \in {e}}) is F(e), with
\* e computed once, as a Python name is bound once by an assignment
The(S) == CHOOSE v \in S : TRUE

\* an assignment that adds an item even when the key is known
DictSet_appending(d, k, v) == Append(d, [key |-> k, value |-> v])

\* self.tables_info[table_name] = ...: a known key keeps its place
DictSet(d, k, v) ==
    IF \E i \in 1..Len(d) : d[i].key = k
    THEN [i \in 1..Len(d) |-> IF d[i].key = k THEN [key |-> k, value |-> v] ELSE d[i]]
    ELSE Append(d, [key |-> k, value |-> v])

\* the text of a line as f.read() returns it
line_string(l) ==
    CASE l.kw = "prop" -> l.key \o ": " \o l.value
      [] l.kw = "annotation" -> "annotation " \o l.key \o " = " \o l.value
      [] l.kw = "measure" -> IF "start" \in DOMAIN l
                             THEN "measure " \o l.name \o " = " \o l.start
                             ELSE "measure " \o l.name
      [] l.kw = "ref" -> "ref table " \o l.name
      [] l.kw = "text" -> l.text
      [] OTHER -> l.kw \o " " \o l.name

\* content = f.read(), as the sequence of its lines
content_of(file) == [i \in 1..Len(file.lines) |-> line_string(file.lines[i])]

\* s.find(pat) + 1: the first place where pat stands in s, 0 when it does not
find(s, pat) ==
    LET hits == {k \in 1..(Len(s) - Len(pat) + 1) : SubSeq(s, k, k + Len(pat) - 1) = pat}
    IN IF hits = {} THEN 0 ELSE CHOOSE k \in hits : \A h \in hits : k <= h

\* str.strip(ch)
RECURSIVE strip(_, _)
strip(s, ch) ==
    IF Len(s) > 0 /\ SubSeq(s, 1, 1) = ch THEN strip(SubSeq(s, 2, Len(s)), ch)
    ELSE IF Len(s) > 0 /\ SubSeq(s, Len(s), Len(s)) = ch
    THEN strip(SubSeq(s, 1, Len(s) - 1), ch)
    ELSE s

\* the lookahead (?=column|measure|partition|annotation\s|$) that ends the
\* body of a column, measure or partition block
BlockEnds == {"column", "measure", "partition", "annotation"}

\* the first place in a line at which the lookahead succeeds, 0 when it does
\* nowhere: the keyword may stand anywhere; `annotation` must be followed by
\* white space (the newline that ends the line is white space)
ends_at(s) ==
    LET hits == {k \in 1..Len(s) : \E e \in BlockEnds :
                    /\ k + Len(e) - 1 <= Len(s)
                    /\ SubSeq(s, k, k + Len(e) - 1) = e
                    /\ e = "annotation" =>
                          \/ k + Len(e) - 1 = Len(s)
                          \/ SubSeq(s, k + Len(e), k + Len(e)) = " "}
    IN IF hits = {} THEN 0 ELSE CHOOSE k \in hits : \A h \in hits : k <= h

\* group 2 of a block match whose declaration is in line i: the lines after
\* it, up to the first place at which the lookahead succeeds; the part of that
\* line before the keyword is the last line of the body
block_body(text, i) ==
    LET ends == {j \in (i + 1)..Len(text) : ends_at(text[j]) > 0}
    IN IF ends = {} THEN SubSeq(text, i + 1, Len(text))
       ELSE LET j == CHOOSE e \in ends : \A k \in ends : e <= k
            IN SubSeq(text, i + 1, j - 1) \o
               (IF ends_at(text[j]) = 1 THEN <<>>
                ELSE <<SubSeq(text[j], 1, ends_at(text[j]) - 1)>>)

\* re.search(r'<key>:\s*([^\n]+)', content).group(1).strip(): the first line
\* that holds `<key>:`; \s* runs over the end of a line that ends there
property(body, key, default) ==
    LET hits == {j \in 1..Len(body) : find(body[j], key \o ":") > 0}
    IN IF hits = {} THEN default
       ELSE LET j == CHOOSE h \in hits : \A k \in hits : h <= k
                rest == SubSeq(body[j], find(body[j], key \o ":") + Len(key) + 1,
                               Len(body[j]))
                next == {k \in (j + 1)..Len(body) : strip(body[k], " ") # ""}
            IN IF rest # "" THEN strip(rest, " ")
               ELSE IF next = {} THEN default
               ELSE strip(body[CHOOSE n \in next : \A k \in next : n <= k], " ")

\* the match of r'annotation ([^\s]+)\s*=\s*([^\n]+)' in a line: <<key, value>>,
\* or <<>> when the line holds none
annotation_in(s) ==
    LET p == find(s, "annotation ")
        rest == SubSeq(s, p + 11, Len(s))
        e == find(rest, "=")
        key == strip(SubSeq(rest, 1, e - 1), " ")
        value == strip(SubSeq(rest, e + 1, Len(rest)), " ")
    IN IF p = 0 \/ e = 0 THEN <<>>
       ELSE IF key = "" \/ find(key, " ") > 0 \/ SubSeq(rest, 1, 1) = " " \/ value = ""
       THEN <<>>
       ELSE <<key, value>>

\* for key, value in re.findall(r'annotation ([^\s]+)\s*=\s*([^\n]+)', content):
\*     annotations[key.strip()] = value.strip()
RECURSIVE annotations_of(_, _)
annotations_of(text, acc) ==
    IF text = <<>> THEN acc
    ELSE annotations_of(Tail(text),
             IF annotation_in(Head(text)) # <<>>
             THEN DictSet(acc, annotation_in(Head(text))[1], annotation_in(Head(text))[2])
             ELSE acc)

EmptyTableInfo == [name |-> "", columns |-> <<>>, measures |-> <<>>,
                   partitions |-> <<>>, annotations |-> <<>>]

\* where r'<kw> ([^\n]+)' matches in a line: the first place at which the
\* keyword, a blank and one more character stand; 0 when nowhere
decl_at(s, kw) ==
    LET hits == {k \in 1..(Len(s) - Len(kw) - 1) : SubSeq(s, k, k + Len(kw)) = kw \o " "}
    IN IF hits = {} THEN 0 ELSE CHOOSE k \in hits : \A h \in hits : k <= h

\* group 1 of that match: the rest of the line
decl_text(s, kw) == SubSeq(s, decl_at(s, kw) + Len(kw) + 1, Len(s))

parse_column(text, i) ==
    LET body == block_body(text, i)
    IN [name |-> strip(decl_text(text[i], "column"), " "),
        dataType |-> property(body, "dataType", ""),
        formatString |-> property(body, "formatString", ""),
        lineageTag |-> property(body, "lineageTag", ""),
        summarizeBy |-> property(body, "summarizeBy", "none"),
        annotations |-> annotations_of(body, <<>>)]

\* s.startswith(pat)
startswith(s, pat) == Len(pat) <= Len(s) /\ SubSeq(s, 1, Len(pat)) = pat

\* a stripped line of a measure body that the expression takes: non-empty and
\* starting with none of formatString:, lineageTag:, annotation
IsExpressionLine(s) ==
    /\ s # ""
    /\ ~startswith(s, "formatString:")
    /\ ~startswith(s, "lineageTag:")
    /\ ~startswith(s, "annotation")

\* '\n'.join(expr_lines)
RECURSIVE join_lines(_)
join_lines(ls) ==
    IF ls = <<>> THEN ""
    ELSE IF Len(ls) = 1 THEN ls[1]
    ELSE ls[1] \o "\n" \o join_lines(Tail(ls))

\* if '=' in measure_name: the name is what stands before the first '=', and
\* what stands after it starts the expression
parse_measure(text, i) ==
    LET body == block_body(text, i)
        measure_name == decl_text(text[i], "measure")
        eq == find(measure_name, "=")
        more == SelectSeq([k \in 1..Len(body) |-> strip(body[k], " ")], IsExpressionLine)
    IN [name |-> IF eq > 0 THEN strip(SubSeq(measure_name, 1, eq - 1), " ")
                 ELSE strip(measure_name, " "),
        expression |-> join_lines(
            IF eq > 0
            THEN <<strip(SubSeq(measure_name, eq + 1, Len(measure_name)), " ")>> \o more
            ELSE more),
        formatString |-> property(body, "formatString", ""),
        lineageTag |-> property(body, "lineageTag", ""),
        annotations |-> annotations_of(body, <<>>)]

\* the source of a partition (a ``` block) is not part of the lines modelled
parse_partition(text, i) ==
    [name |-> strip(decl_text(text[i], "partition"), " "),
     mode |-> property(block_body(text, i), "mode", ""),
     source |-> ""]

IsTableLine(l) == l.kw = "table"

\* the blocks re.findall finds for one keyword, in file order: a match takes
\* the rest of its line, so a line declares at most one block of a kind, and
\* the body before it ended at the first keyword of that line
RECURSIVE blocks_of(_, _, _)
blocks_of(text, kw, i) ==
    IF i > Len(text) THEN <<>>
    ELSE (IF decl_at(text[i], kw) > 0
          THEN <<CASE kw = "column" -> parse_column(text, i)
                   [] kw = "measure" -> parse_measure(text, i)
                   [] OTHER -> parse_partition(text, i)>>
          ELSE <<>>) \o blocks_of(text, kw, i + 1)

\* re.search(r'table ([^\n]+)', content): the first line that holds a match
table_name_of(text) ==
    LET hits == {j \in 1..Len(text) : decl_at(text[j], "table") > 0}
    IN IF hits = {} THEN ""
       ELSE strip(decl_text(text[CHOOSE j \in hits : \A k \in hits : j <= k], "table"), " ")

\* a file that cannot be read or decoded: except Exception: log, return the defaults
parse_table_file(file) ==
    IF ~file.readable THEN EmptyTableInfo
    ELSE LET content == content_of(file)
         IN [name |-> table_name_of(content),
             columns |-> blocks_of(content, "column", 1),
             measures |-> blocks_of(content, "measure", 1),
             partitions |-> blocks_of(content, "partition", 1),
             annotations |-> annotations_of(content, <<>>)]

\* str.split(sep) for a one-character sep
RECURSIVE split(_, _)
split(s, sep) ==
    LET hits == {k \in 1..Len(s) : SubSeq(s, k, k) = sep}
    IN IF hits = {} THEN <<s>>
       ELSE LET k == CHOOSE h \in hits : \A g \in hits : h <= g
            IN <<SubSeq(s, 1, k - 1)>> \o split(SubSeq(s, k + 1, Len(s)), sep)

\* from_parts = value.split('.'); if len(from_parts) == 2: strip("'") each part
table_and_column(b, key) ==
    IF ~Has(b, key) THEN <<"", "">>
    ELSE LET parts == split(b[key], ".")
         IN IF Len(parts) = 2 THEN <<strip(parts[1], "'"), strip(parts[2], "'")>>
            ELSE <<"", "">>

parse_relationship(b) ==
    LET base == [id |-> b.id,
                 fromTable |-> table_and_column(b, "fromColumn")[1],
                 fromColumn |-> table_and_column(b, "fromColumn")[2],
                 toTable |-> table_and_column(b, "toColumn")[1],
                 toColumn |-> table_and_column(b, "toColumn")[2],
                 isActive |-> IF Has(b, "isActive") THEN Lower(b.isActive) = "true" ELSE TRUE,
                 crossFilteringBehavior |-> "automatic",
                 joinOnDateBehavior |-> IF Has(b, "joinOnDateBehavior") THEN "datePartOnly"
                                        ELSE None]
    IN IF Has(b, "toCardinality")
       THEN [k \in DOMAIN base \cup {"toCardinality"} |->
                IF k = "toCardinality" THEN b.toCardinality ELSE base[k]]
       ELSE base

parse_relationships_file(file) ==
    IF ~file.readable THEN <<>>
    ELSE [i \in 1..Len(file.blocks) |-> parse_relationship(file.blocks[i])]

\* model.tmdl: culture, sourceQueryCulture, `ref table` lines, annotations
ref_tables(text) ==
    SelectSeq([i \in 1..Len(text) |->
                  IF decl_at(text[i], "ref table") > 0
                  THEN strip(decl_text(text[i], "ref table"), " ") ELSE ""],
              LAMBDA t : t # "")

EmptyModelInfo == [culture |-> "", sourceQueryCulture |-> "", tables |-> <<>>,
                   annotations |-> <<>>]

parse_model_file(file) ==
    IF ~file.readable THEN EmptyModelInfo
    ELSE LET content == content_of(file)
         IN [culture |-> property(content, "culture", ""),
             sourceQueryCulture |-> property(content, "sourceQueryCulture", ""),
             tables |-> ref_tables(content),
             annotations |-> annotations_of(content, <<>>)]

IsTmdl(f) == f.ext = ".tmdl"

\* the loop over table_files when a file that cannot be read ends it
RECURSIVE parse_table_files_aborting(_, _)
parse_table_files_aborting(files, tables_info) ==
    IF files = <<>> THEN tables_info
    ELSE IF ~Head(files).content.readable THEN tables_info
    ELSE parse_table_files_aborting(Tail(files),
             DictSet(tables_info, Head(files).stem, parse_table_file(Head(files).content)))

\* the loop over table_files filling a dict that starts empty at every call
RECURSIVE parse_table_files_anew(_, _)
parse_table_files_anew(files, tables_info) ==
    IF files = <<>> THEN <<>>
    ELSE DictSet(parse_table_files_anew(SubSeq(files, 1, Len(files) - 1), tables_info),
                 files[Len(files)].stem, parse_table_file(files[Len(files)].content))

\* for file_name in table_files: self.tables_info[table_name] = parse_table_file(...)
RECURSIVE parse_table_files(_, _)
parse_table_files(files, tables_info) ==
    IF files = <<>> THEN tables_info
    ELSE parse_table_files(Tail(files),
             DictSet(tables_info, Head(files).stem, parse_table_file(Head(files).content)))

\* self.model_info = {} is the record without keys of Python; here NoModelInfo
NoModelInfo == [empty |-> "dict"]
NoModelFile == [kind |-> "absent"]

NewParser == [tables_info |-> <<>>, relationships |-> <<>>, model_info |-> NoModelInfo]

\* the dict parse_project returns
project_result(self) ==
    [model |-> self.model_info, tables |-> self.tables_info,
     relationships |-> self.relationships]

\* the result parse_project gives for a base directory that is no directory:
\* a new dict that shares nothing with the fields of the object
AllEmpty == [model |-> NoModelInfo, tables |-> <<>>, relationships |-> <<>>]

\* if not os.path.isdir(self.base_directory), answered from the fields of the object
parse_project_from_fields(self, dir) ==
    [self |-> self, exc |-> "none", opened |-> 0, value |-> project_result(self)]

\* if not os.path.isdir(self.base_directory): log, return the all-empty dict
parse_project_no_directory(self, dir) ==
    [self |-> self, exc |-> "none", opened |-> 0, value |-> AllEmpty]

\* parse_project on parser state self: the state afterwards, the value
\* returned, or the exception os.listdir raises when the tables path is not a
\* directory; opened counts the files the call opened
parse_project(self, dir) ==
    IF ~dir.exists
    THEN parse_project_no_directory(self, dir)
    ELSE LET mfile == Get(dir, "model", NoModelFile)
             model == IF mfile.kind = "absent" THEN self.model_info
                      ELSE parse_model_file(mfile)
             rels == IF dir.rels.kind = "absent" THEN self.relationships
                     ELSE parse_relationships_file(dir.rels)
             before == (IF mfile.kind = "absent" THEN 0 ELSE 1)
                       + (IF dir.rels.kind = "absent" THEN 0 ELSE 1)
         IN IF dir.tables.kind = "notadir"
            THEN [self |-> [self EXCEPT !.relationships = rels, !.model_info = model],
                  exc |-> "NotADirectoryError", opened |-> before]
            ELSE LET files == IF dir.tables.kind = "missing" THEN <<>>
                              ELSE SelectSeq(dir.tables.files, IsTmdl)
                 IN The({[self |-> after, exc |-> "none", opened |-> before + Len(files),
                          value |-> project_result(after)] :
                         after \in {[tables_info |-> parse_table_files(files, self.tables_info),
                                     relationships |-> rels,
                                     model_info |-> model]}})

clean_columns(cols) ==
    [i \in 1..Len(cols) |-> [name |-> cols[i].name,
                             dataType |-> cols[i].dataType,
                             summarizeBy |-> cols[i].summarizeBy]]

\* the measures of a table without the name of the table
clean_measures_untagged(info) ==
    [i \in 1..Len(info.measures) |->
        [name |-> info.measures[i].name,
         expression |-> info.measures[i].expression,
         table |-> "",
         formatString |-> info.measures[i].formatString]]

clean_measures(info) ==
    [i \in 1..Len(info.measures) |->
        [name |-> info.measures[i].name,
         expression |-> info.measures[i].expression,
         table |-> info.name,
         formatString |-> info.measures[i].formatString]]

\* a relationship of the clean schema that always carries toCardinality
clean_relationship_defaulting(r) ==
    [fromTable |-> r.fromTable, fromColumn |-> r.fromColumn,
     toTable |-> r.toTable, toColumn |-> r.toColumn,
     isActive |-> r.isActive, toCardinality |-> Get(r, "toCardinality", "one")]

clean_relationship(r) ==
    LET base == [fromTable |-> r.fromTable, fromColumn |-> r.fromColumn,
                 toTable |-> r.toTable, toColumn |-> r.toColumn,
                 isActive |-> r.isActive]
    IN IF Has(r, "toCardinality")
       THEN [k \in DOMAIN base \cup {"toCardinality"} |->
                IF k = "toCardinality" THEN r.toCardinality ELSE base[k]]
       ELSE base

RECURSIVE clean_all_measures(_)
clean_all_measures(tables_info) ==
    IF tables_info = <<>> THEN <<>>
    ELSE clean_measures(Head(tables_info).value) \o clean_all_measures(Tail(tables_info))

\* generate_clean_json once the instance holds the parsed project
clean_model(self) ==
    [tables |-> [i \in 1..Len(self.tables_info) |->
                    [name |-> self.tables_info[i].value.name,
                     columns |-> clean_columns(self.tables_info[i].value.columns)]],
     relationships |-> [i \in 1..Len(self.relationships) |->
                          clean_relationship(self.relationships[i])],
     measures |-> clean_all_measures(self.tables_info)]

\* if not self.tables_info and not self.relationships: self.parse_project()
generate_clean_json(self, dir) ==
    The({IF again.exc # "none" THEN [exc |-> again.exc, self |-> again.self]
         ELSE [exc |-> "none", self |-> again.self, schema |-> clean_model(again.self)] :
         again \in {IF self.tables_info = <<>> /\ self.relationships = <<>>
                    THEN parse_project(self, dir)
                    ELSE [self |-> self, exc |-> "none"]}})

\* parser = TMDLParser(dir); parser.parse_project(); parser.generate_clean_json()
tmdl_extract(dir) ==
    The({IF p.exc # "none" THEN [exc |-> p.exc] ELSE generate_clean_json(p.self, dir) :
         p \in {parse_project(NewParser, dir)}})

\* pbix_parser.extract_pbix_metadata as a function of the uploaded package
pbix_extract(pkg) ==
    IF ~pkg.zip THEN [exc |-> "BadZipFile"]
    ELSE LET sch == pbix_schema(pkg.schema, EmptyMetadata)
         IN IF sch.exc # "none" THEN [exc |-> sch.exc]
            ELSE [exc |-> "none", schema |-> pbix_layout(pkg.layouts, sch.md).md]

(***************************************************************************)
(* SchemaManager (schema_manager.py)                                       *)
(***************************************************************************)
Callers == {"c1", "c2"}

\* datetime.now() is StartSecond + clock seconds into the day Today
StartSecond == 39598
Today == <<"2", "0", "2", "6", "1", "1", "0", "4">>
DigitChars == <<"0", "1", "2", "3", "4", "5", "6", "7", "8", "9">>
TwoDigits(n) == <<DigitChars[(n \div 10) + 1], DigitChars[(n % 10) + 1]>>

\* datetime.strftime('%Y%m%d%H%M%S')
strftime(t) ==
    LET sec == StartSecond + t
    IN Today \o TwoDigits((sec \div 3600) % 24) \o TwoDigits((sec \div 60) % 60)
             \o TwoDigits(sec % 60)

KindPrefix(kind) == IF kind = "pbix" THEN <<"p", "b", "i", "x">>
                    ELSE <<"t", "m", "d", "l">>

\* f"pbix_{...}" (line 45), f"tmdl_{...}" (lines 69 and 105)
schema_id(kind, t) == KindPrefix(kind) \o <<"_">> \o strftime(t)

\* json.dump / json.load: Python True and False are written true and false
PyToJsonRel(r) ==
    IF Has(r, "isActive")
    THEN [r EXCEPT !.isActive = IF @ THEN "true" ELSE "false"]
    ELSE r

JsonToPyRel(r) ==
    IF Has(r, "isActive") THEN [r EXCEPT !.isActive = (@ = "true")] ELSE r

json_dump(schema) ==
    [valid |-> TRUE,
     value |-> [schema EXCEPT !.relationships =
                  [i \in 1..Len(@) |-> PyToJsonRel(@[i])]]]

json_load(text) ==
    [text.value EXCEPT !.relationships = [i \in 1..Len(@) |-> JsonToPyRel(@[i])]]

NotFound == [none |-> TRUE]

\* _save_schema: open(file_path, 'w') creates or truncates <schema_id>.json
save_schema(files, id, schema) ==
    [x \in DOMAIN files \cup {id} |-> IF x = id THEN json_dump(schema) ELSE files[x]]

\* a load_schema without its `except Exception` clause
load_schema_unguarded(files, id) ==
    IF id \notin DOMAIN files THEN NotFound
    ELSE IF ~files[id].valid THEN [raised |-> "JSONDecodeError"]
    ELSE json_load(files[id])

\* os.path.exists false: None; json.load raising: except Exception: None
load_schema(files, id) ==
    IF id \notin DOMAIN files THEN NotFound
    ELSE IF ~files[id].valid THEN NotFound
    ELSE json_load(files[id])

\* a handler that wraps what it caught instead of re-raising it
reraise_wrapped(e) == "RuntimeError"

\* `except Exception as e: logger.error(...); raise` re-raises e itself
reraise(e) == e

\* a handler that saves an empty snapshot before it re-raises
except_clause_saving(files, kind, t) ==
    save_schema(files, schema_id(kind, t),
                [tables |-> <<>>, relationships |-> <<>>, measures |-> <<>>])

\* the data directory after the except clause of an extraction method: the
\* clause logs and re-raises, and _save_schema, which follows the extractor
\* in the try block, has not been reached
except_clause(files, kind, t) == files

(***************************************************************************)
(* Payloads of the extraction calls                                        *)
(***************************************************************************)
LayoutBar == [kind |-> "json", data |-> [sections |-> <<[visualContainers |-> <<VBar>>]>>]]

PkgNotZip == [zip |-> FALSE]
PkgEmpty == [zip |-> TRUE, schema |-> Absent, layouts |-> <<>>]
PkgSales == [zip |-> TRUE,
             schema |-> [kind |-> "json",
                         data |-> [model |-> [tables |-> <<TSales>>,
                                              relationships |-> <<RSalesCust>>]]],
             layouts |-> <<LayoutBar>>]
PkgBadSchema == [zip |-> TRUE, schema |-> [kind |-> "notjson"], layouts |-> <<LayoutBar>>]
Packages == {PkgNotZip, PkgEmpty, PkgSales, PkgBadSchema}

NoRels == [kind |-> "absent"]
\* tables/Sales.tmdl
SalesFile ==
    [readable |-> TRUE,
     lines |-> <<[kw |-> "table", name |-> "Sales"],
                 [kw |-> "column", name |-> "OrderDate"],
                 [kw |-> "prop", key |-> "dataType", value |-> "dateTime"],
                 [kw |-> "column", name |-> "Amount"],
                 [kw |-> "prop", key |-> "dataType", value |-> "double"],
                 [kw |-> "prop", key |-> "summarizeBy", value |-> "sum"],
                 [kw |-> "measure", name |-> "Total Sales", start |-> "SUM(Sales[Amount])"]>>]
\* tables/Customer.tmdl
CustFile ==
    [readable |-> TRUE,
     lines |-> <<[kw |-> "table", name |-> "Customer"],
                 [kw |-> "column", name |-> "ID"]>>]
RelsFile == [kind |-> "file", readable |-> TRUE,
             blocks |-> <<[id |-> "r1", fromColumn |-> "Sales.CustomerID",
                           toColumn |-> "Customer.ID", isActive |-> "true",
                           toCardinality |-> "many"]>>]

DirMissing == [exists |-> FALSE]
DirEmpty == [exists |-> TRUE, tables |-> [kind |-> "missing"], rels |-> NoRels]
DirSales == [exists |-> TRUE,
             tables |-> [kind |-> "dir",
                         files |-> <<[stem |-> "Sales", ext |-> ".tmdl", content |-> SalesFile],
                                     [stem |-> "notes", ext |-> ".txt",
                                      content |-> [readable |-> FALSE]]>>],
             rels |-> RelsFile]
DirCust == [exists |-> TRUE,
            tables |-> [kind |-> "dir",
                        files |-> <<[stem |-> "Customer", ext |-> ".tmdl",
                                     content |-> CustFile]>>],
            rels |-> NoRels]
DirTablesIsFile == [exists |-> TRUE, tables |-> [kind |-> "notadir"], rels |-> NoRels]
Directories == {DirMissing, DirEmpty, DirSales, DirCust, DirTablesIsFile}

\* extract_from_tmdl_files writes the uploaded files into a fresh temporary
\* directory, which therefore exists
UploadedDirs == {DirEmpty, DirSales}

Requests ==
    {[kind |-> "pbix", entry |-> "extract_from_pbix", payload |-> p] : p \in Packages}
    \cup {[kind |-> "tmdl", entry |-> "extract_from_tmdl", payload |-> d] : d \in Directories}
    \cup {[kind |-> "tmdl", entry |-> "extract_from_tmdl_files", payload |-> d] :
            d \in UploadedDirs}

NoRequest == [kind |-> "none"]
NoSchema == [none |-> TRUE]
NoId == <<>>

\* the extractor a request runs
extractor(r) == IF r.kind = "pbix" THEN pbix_extract(r.payload) ELSE tmdl_extract(r.payload)

(***************************************************************************)
(* The callers of one SchemaManager (the module-level instance of          *)
(* app/ui/sidebar.py, shared by the sessions of the application)           *)
(***************************************************************************)
InitManager ==
    /\ clock = 0
    /\ store = <<>>
    /\ writes = <<>>
    /\ pc = [c \in Callers |-> "idle"]
    /\ req = [c \in Callers |-> NoRequest]
    /\ result = [c \in Callers |-> NoSchema]
    /\ sid = [c \in Callers |-> NoId]
    /\ raised = [c \in Callers |-> "none"]
    /\ ncalls = [c \in Callers |-> 0]
    /\ thrown = [c \in Callers |-> "none"]
    /\ started = 0

\* no extract_pbix_metadata run is traced in Spec
RunIdle ==
    /\ variant = "none"
    /\ xpc = "idle"
    /\ metadata = EmptyMetadata
    /\ tmpFile = FALSE
    /\ status = [s \in Strategies |-> "pending"]
    /\ added = [s \in Strategies |-> NoneAdded]
    /\ xraised = "none"

\* a second of wall-clock time passes
Tick ==
    /\ clock < MaxTicks
    /\ clock' = clock + 1
    /\ UNCHANGED <<store, writes, pc, req, result, sid, raised, ncalls, thrown, started>>
    /\ UNCHANGED <<xvars, qvars, tvars>>

\* a caller enters extract_from_pbix, extract_from_tmdl or extract_from_tmdl_files
Begin(c) ==
    /\ pc[c] \in {"idle", "returned", "raised"}
    /\ started < MaxCalls
    /\ \E r \in Requests : req' = [req EXCEPT ![c] = r]
    /\ pc' = [pc EXCEPT ![c] = "called"]
    /\ result' = [result EXCEPT ![c] = NoSchema]
    /\ sid' = [sid EXCEPT ![c] = NoId]
    /\ raised' = [raised EXCEPT ![c] = "none"]
    /\ thrown' = [thrown EXCEPT ![c] = "none"]
    /\ ncalls' = [ncalls EXCEPT ![c] = 0]
    /\ started' = started + 1
    /\ UNCHANGED <<clock, store, writes>>
    /\ UNCHANGED <<xvars, qvars, tvars>>

\* the extractor runs; if it raises, the except clause logs and re-raises
Extract(c) ==
    /\ pc[c] = "called"
    /\ \E r \in {extractor(req[c])} :
         /\ ncalls' = [ncalls EXCEPT ![c] = @ + 1]
         /\ IF r.exc = "none"
            THEN /\ result' = [result EXCEPT ![c] = r.schema]
                 /\ pc' = [pc EXCEPT ![c] = "extracted"]
                 /\ UNCHANGED <<thrown, raised>>
            ELSE /\ thrown' = [thrown EXCEPT ![c] = r.exc]
                 /\ raised' = [raised EXCEPT ![c] = reraise(r.exc)]
                 /\ pc' = [pc EXCEPT ![c] = "raised"]
                 /\ UNCHANGED result
         /\ store' = IF r.exc = "none" THEN store
                     ELSE except_clause(store, req[c].kind, clock)
    /\ UNCHANGED <<clock, writes, req, sid, started>>
    /\ UNCHANGED <<xvars, qvars, tvars>>

\* schema_id = f"<kind>_{datetime.now().strftime(...)}"; self._save_schema(...)
Save(c) ==
    /\ pc[c] = "extracted"
    /\ LET id == schema_id(req[c].kind, clock) IN
         /\ sid' = [sid EXCEPT ![c] = id]
         /\ store' = save_schema(store, id, result[c])
         /\ writes' = [x \in DOMAIN writes \cup {id} |->
                         IF x = id THEN Get(writes, id, 0) + 1 ELSE writes[x]]
    /\ pc' = [pc EXCEPT ![c] = "saved"]
    /\ UNCHANGED <<clock, req, result, raised, ncalls, thrown, started>>
    /\ UNCHANGED <<xvars, qvars, tvars>>

\* return metadata / return schema
Return(c) ==
    /\ pc[c] = "saved"
    /\ pc' = [pc EXCEPT ![c] = "returned"]
    /\ UNCHANGED <<clock, store, writes, req, result, sid, raised, ncalls, thrown, started>>
    /\ UNCHANGED <<xvars, qvars, tvars>>

Init == InitManager /\ RunIdle /\ QueryIdle /\ NoParser

Next ==
    \/ Tick
    \/ \E c \in Callers : Begin(c)
    \/ \E c \in Callers : Extract(c)
    \/ \E c \in Callers : Save(c)
    \/ \E c \in Callers : Return(c)

Spec == Init /\ [][Next]_vars

(***************************************************************************)
(* The snapshot store and its readers: load_schema, list_schemas and       *)
(* _parse_timestamp_from_id.  Text is a sequence of one-character strings; *)
(* the characters of a timestamp part are ASCII.                           *)
(***************************************************************************)
Unknown == <<"U", "n", "k", "n", "o", "w", "n">>

\* code point of a character, for Python's comparison of str values
Ord(ch) ==
    CASE ch = " " -> 32 [] ch = "-" -> 45 [] ch = ":" -> 58 [] ch = "_" -> 95
      [] ch \in {DigitChars[i] : i \in 1..10} ->
             47 + (CHOOSE i \in 1..10 : DigitChars[i] = ch)
      [] ch = "U" -> 85
      [] OTHER -> 100

\* a < b for two str values
RECURSIVE StrLess(_, _)
StrLess(a, b) ==
    IF b = <<>> THEN FALSE
    ELSE IF a = <<>> THEN TRUE
    ELSE IF Head(a) = Head(b) THEN StrLess(Tail(a), Tail(b))
    ELSE Ord(Head(a)) < Ord(Head(b))

IsDigit(ch) == ch \in {DigitChars[i] : i \in 1..10}
DigitValue(ch) == (CHOOSE i \in 1..10 : DigitChars[i] = ch) - 1

\* the number a run of digits denotes
RECURSIVE Number(_)
Number(ds) ==
    IF ds = <<>> THEN 0
    ELSE 10 * Number(SubSeq(ds, 1, Len(ds) - 1)) + DigitValue(ds[Len(ds)])

\* schema_id.split('_', 1)
split_once(id) ==
    IF \E i \in 1..Len(id) : id[i] = "_"
    THEN LET k == CHOOSE i \in 1..Len(id) :
                     id[i] = "_" /\ \A j \in 1..(i - 1) : id[j] # "_"
         IN <<SubSeq(id, 1, k - 1), SubSeq(id, k + 1, Len(id))>>
    ELSE <<id>>

IsLeap(y) == (y % 4 = 0 /\ y % 100 # 0) \/ y % 400 = 0

DaysIn(y, m) ==
    IF m = 2 THEN (IF IsLeap(y) THEN 29 ELSE 28)
    ELSE IF m \in {4, 6, 9, 11} THEN 30 ELSE 31

\* datetime.strptime(ts, '%Y%m%d%H%M%S') on 14 characters: every directive
\* must take its full width, and datetime() checks the ranges; ValueError
\* otherwise
strptime(ts) ==
    IF \E i \in 1..Len(ts) : ~IsDigit(ts[i]) THEN [ok |-> FALSE]
    ELSE LET Y == Number(SubSeq(ts, 1, 4))
             m == Number(SubSeq(ts, 5, 6))
             d == Number(SubSeq(ts, 7, 8))
             H == Number(SubSeq(ts, 9, 10))
             M == Number(SubSeq(ts, 11, 12))
             S == Number(SubSeq(ts, 13, 14))
         IN IF /\ Y >= 1
               /\ m \in 1..12
               /\ d >= 1 /\ d <= DaysIn(Y, m)
               /\ H <= 23 /\ M <= 59 /\ S <= 59
            THEN [ok |-> TRUE, year |-> Y, month |-> m, day |-> d,
                  hour |-> H, minute |-> M, second |-> S]
            ELSE [ok |-> FALSE]

\* the decimal digits of n, without padding
RECURSIVE Decimal(_)
Decimal(n) ==
    IF n < 10 THEN <<DigitChars[n + 1]>>
    ELSE Decimal(n \div 10) \o <<DigitChars[(n % 10) + 1]>>

\* the year written in four columns
FourDigits(n) == TwoDigits(n \div 100) \o TwoDigits(n % 100)

\* timestamp.strftime('%Y-%m-%d %H:%M:%S'): the platform's C library writes
\* %Y either padded to four digits or without padding (glibc: '999'), the
\* other fields with two digits
format_created(t, pad) ==
    (IF pad THEN FourDigits(t.year) ELSE Decimal(t.year)) \o <<"-">> \o TwoDigits(t.month) \o <<"-">> \o TwoDigits(t.day)
        \o <<" ">> \o TwoDigits(t.hour) \o <<":">> \o TwoDigits(t.minute)
        \o <<":">> \o TwoDigits(t.second)

\* stands for a ValueError leaving _parse_timestamp_from_id
RaisedValueError == <<"V", "a", "l", "u", "e", "E", "r", "r", "o", "r">>

\* a _parse_timestamp_from_id without its `except ValueError: pass`
parse_timestamp_raising(id, pad) ==
    LET parts == split_once(id) IN
    IF Len(parts) = 2 /\ Len(parts[2]) = 14
    THEN LET t == strptime(parts[2])
         IN IF t.ok THEN format_created(t, pad) ELSE RaisedValueError
    ELSE Unknown

parse_timestamp_from_id(id, pad) ==
    LET parts == split_once(id) IN
    IF Len(parts) = 2 /\ Len(parts[2]) = 14
    THEN LET t == strptime(parts[2])
         IN IF t.ok THEN format_created(t, pad) ELSE Unknown
    ELSE Unknown

\* a kind told from both prefixes, with a third value for any other id
type_of_known_prefix(id) ==
    IF Len(id) >= 5 /\ SubSeq(id, 1, 5) = <<"p", "b", "i", "x", "_">> THEN "pbix"
    ELSE IF Len(id) >= 5 /\ SubSeq(id, 1, 5) = <<"t", "m", "d", "l", "_">> THEN "tmdl"
    ELSE "unknown"

\* "pbix" if schema_id.startswith("pbix_") else "tmdl"
type_of(id) ==
    IF Len(id) >= 5 /\ SubSeq(id, 1, 5) = <<"p", "b", "i", "x", "_">> THEN "pbix" ELSE "tmdl"

list_entry(id, pad) ==
    [id |-> id, created |-> parse_timestamp_from_id(id, pad), type |-> type_of(id)]

\* schemas.sort(key=lambda x: x["created"], reverse=True): a stable sort, so
\* entries with equal keys keep the order os.listdir gave them
RECURSIVE insert_sorted(_, _)
insert_sorted(sorted, e) ==
    IF sorted = <<>> THEN <<e>>
    ELSE IF StrLess(Head(sorted).created, e.created) THEN <<e>> \o sorted
    ELSE <<Head(sorted)>> \o insert_sorted(Tail(sorted), e)

RECURSIVE sort_newest_first(_, _)
sort_newest_first(entries, sorted) ==
    IF entries = <<>> THEN sorted
    ELSE sort_newest_first(Tail(entries), insert_sorted(sorted, Head(entries)))

\* os.listdir returns the names in an order of the file system's choosing
RECURSIVE listdir(_)
listdir(names) ==
    IF names = {} THEN {<<>>}
    ELSE UNION {{<<x>> \o q : q \in listdir(names \ {x})} : x \in names}

\* list_schemas for one order of os.listdir; an exception inside the loop
\* would leave list_schemas, which has no handler of its own
list_schemas(order, pad) ==
    LET entries == [i \in 1..Len(order) |-> list_entry(order[i], pad)]
    IN IF \E i \in 1..Len(entries) : entries[i].created = RaisedValueError
       THEN [exc |-> "ValueError", schemas |-> <<>>]
       ELSE [exc |-> "none", schemas |-> sort_newest_first(entries, <<>>)]

\* documents of data_dir that no extraction call wrote: ids without the
\* <kind>_<YYYYMMDDHHMMSS> shape, and an id stamped in the year 999
IdNotes == <<"n", "o", "t", "e", "s">>
IdShort == <<"p", "b", "i", "x", "_", "2", "0", "2", "6">>
IdBadDate == <<"t", "m", "d", "l", "_",
               "2", "0", "2", "6", "0", "2", "3", "0", "0", "0", "0", "0", "0", "0">>
IdYear999 == <<"p", "b", "i", "x", "_",
               "0", "9", "9", "9", "0", "1", "0", "1", "0", "0", "0", "0", "0", "0">>
ForeignIds == {IdNotes, IdShort, IdBadDate, IdYear999}

\* an id under which nothing is ever stored
IdMissing == <<"p", "b", "i", "x", "_",
               "2", "0", "2", "0", "0", "1", "0", "1", "0", "0", "0", "0", "0", "0">>

\* a file whose content json.load rejects, and one it accepts
CorruptDoc == [valid |-> FALSE]
ForeignDocs == {CorruptDoc, json_dump(EmptyMetadata)}

MaxFiles == 3        \* most documents data_dir holds

\* the requests whose extraction calls fill the store
StoreRequests ==
    {[kind |-> "pbix", entry |-> "extract_from_pbix", payload |-> PkgSales],
     [kind |-> "tmdl", entry |-> "extract_from_tmdl", payload |-> DirSales],
     [kind |-> "tmdl", entry |-> "extract_from_tmdl", payload |-> DirMissing]}

\* one whole extraction call of a single caller: extract, then _save_schema
ExtractCall ==
    /\ started < MaxCalls
    /\ \E r \in StoreRequests : \E x \in {extractor(r)} :
         LET id == schema_id(r.kind, clock)
         IN /\ x.exc = "none"
            /\ Cardinality(DOMAIN store \cup {id}) <= MaxFiles
            /\ store' = save_schema(store, id, x.schema)
            /\ writes' = [w \in DOMAIN writes \cup {id} |->
                            IF w = id THEN Get(writes, id, 0) + 1 ELSE writes[w]]
    /\ started' = started + 1
    /\ answer' = NoAnswer
    /\ UNCHANGED <<clock, pc, req, result, sid, raised, ncalls, thrown>>
    /\ UNCHANGED <<xvars, tvars>>

\* a file appears in data_dir that SchemaManager did not write
Place ==
    /\ \E id \in ForeignIds \ DOMAIN store, doc \in ForeignDocs :
         /\ Cardinality(DOMAIN store) < MaxFiles
         /\ store' = [w \in DOMAIN store \cup {id} |-> IF w = id THEN doc ELSE store[w]]
    /\ answer' = NoAnswer
    /\ UNCHANGED <<clock, writes, pc, req, result, sid, raised, ncalls, thrown, started>>
    /\ UNCHANGED <<xvars, tvars>>

\* load_schema(id)
Load ==
    /\ \E id \in DOMAIN store \cup {IdMissing} :
         answer' = [op |-> "load", id |-> id, value |-> load_schema(store, id)]
    /\ UNCHANGED mvars
    /\ UNCHANGED <<xvars, tvars>>

\* list_schemas()
List ==
    /\ \E order \in listdir(DOMAIN store), pad \in BOOLEAN :
         answer' = [op |-> "list", order |-> order, pad |-> pad,
                    value |-> list_schemas(order, pad)]
    /\ UNCHANGED mvars
    /\ UNCHANGED <<xvars, tvars>>

NextStore ==
    \/ Tick
    \/ ExtractCall
    \/ Place
    \/ Load
    \/ List

SpecStore == Init /\ [][NextStore]_vars

(***************************************************************************)
(* One TMDLParser object and the calls made on it                          *)
(***************************************************************************)
\* the lines of a table file that the project directories below vary
ColumnProps == {"dataType", "summarizeBy"}
PropValue(key) == IF key = "dataType" THEN "int64" ELSE "sum"
Note(key, value) == [kw |-> "annotation", key |-> key, value |-> value]
Optional(present, line) == IF present THEN <<line>> ELSE <<>>

\* tables/Orders.tmdl: one column and one measure, each with the property
\* lines and the annotation line asked for, and the table's own annotation
OrdersFile(props, colNote, fmt, measNote, tabNote) ==
    [readable |-> TRUE,
     lines |-> <<[kw |-> "table", name |-> "Orders"]>>
               \o Optional(tabNote, Note("PBI_ResultType", "Table"))
               \o <<[kw |-> "column", name |-> "Qty"]>>
               \o Optional("dataType" \in props,
                           [kw |-> "prop", key |-> "dataType", value |-> PropValue("dataType")])
               \o Optional("summarizeBy" \in props,
                           [kw |-> "prop", key |-> "summarizeBy",
                            value |-> PropValue("summarizeBy")])
               \o Optional(colNote, Note("SummarizationSetBy", "Automatic"))
               \o <<[kw |-> "measure", name |-> "Total Qty", start |-> "SUM(Orders[Qty])"]>>
               \o Optional(fmt, [kw |-> "prop", key |-> "formatString", value |-> "0"])
               \o Optional(measNote, Note("PBI_FormatHint", "{}"))]

TableDir(file) ==
    [exists |-> TRUE,
     tables |-> [kind |-> "dir",
                 files |-> <<[stem |-> "Orders", ext |-> ".tmdl", content |-> file]>>],
     rels |-> NoRels]

TableDirs ==
    {TableDir(OrdersFile(props, colNote, fmt, measNote, tabNote)) :
        props \in SUBSET ColumnProps, colNote \in BOOLEAN, fmt \in BOOLEAN,
        measNote \in BOOLEAN, tabNote \in BOOLEAN}

\* the values of the fromColumn: line of a relationship block
FromValues == {"'Sales'.'CustomerID'", "Sales.CustomerID", "'dbo.Sales'.'CustomerID'",
               "Customer.'Full.Name'", "CustomerID"}
ActiveValues == {"true", "False", "FALSE"}
NoLine == "<no line>"

\* a block with the lines whose value is given
RelBlock(from, active, card, jodb) ==
    LET given == [fromColumn |-> from, toColumn |-> "'Customer'.'ID'",
                  isActive |-> active, toCardinality |-> card,
                  joinOnDateBehavior |-> jodb]
        keys == {k \in DOMAIN given : given[k] # NoLine}
    IN [k \in keys \cup {"id"} |-> IF k = "id" THEN "r1" ELSE given[k]]

RelsDir(block) ==
    [exists |-> TRUE, tables |-> [kind |-> "missing"],
     rels |-> [kind |-> "file", readable |-> TRUE, blocks |-> <<block>>]]

RelsDirs ==
    {RelsDir(RelBlock(from, active, card, jodb)) :
        from \in FromValues \cup {NoLine}, active \in ActiveValues \cup {NoLine},
        card \in {"many", NoLine}, jodb \in {"datePartOnly", NoLine}}

\* model.tmdl and a table file that cannot be decoded
ModelFile == [kind |-> "file", readable |-> TRUE,
              lines |-> <<[kw |-> "prop", key |-> "culture", value |-> "en-US"],
                          [kw |-> "ref", name |-> "Sales"],
                          Note("PBI_QueryOrder", "[]")>>]
DirModel == [exists |-> TRUE, model |-> ModelFile,
             tables |-> [kind |-> "dir",
                         files |-> <<[stem |-> "Broken", ext |-> ".tmdl",
                                      content |-> [readable |-> FALSE]]>>],
             rels |-> [kind |-> "file", readable |-> FALSE]]

\* every combination of the three parts being absent, unreadable or readable
Unreadable == [kind |-> "file", readable |-> FALSE]
BrokenTable == [stem |-> "Broken", ext |-> ".tmdl", content |-> [readable |-> FALSE]]
PartDir(model, rels, tables) ==
    IF model.kind = "absent"
    THEN [exists |-> TRUE, tables |-> tables, rels |-> rels]
    ELSE [exists |-> TRUE, model |-> model, tables |-> tables, rels |-> rels]

PartDirs ==
    {PartDir(model, rels, tables) :
        model \in {NoModelFile, Unreadable, ModelFile},
        rels \in {NoRels, Unreadable, RelsFile},
        tables \in {[kind |-> "missing"],
                    [kind |-> "dir", files |-> <<>>],
                    [kind |-> "dir",
                     files |-> <<BrokenTable,
                                 [stem |-> "Customer", ext |-> ".tmdl", content |-> CustFile],
                                 [stem |-> "readme", ext |-> ".md",
                                  content |-> [readable |-> TRUE]]>>]}}

\* tables/Orders.tmdl with a display folder on the column and on the measure,
\* and a measure whose expression runs over the lines after its header
NoStart == "<no = in the header>"
FolderFile(colFolder, start, more, measFolder) ==
    [readable |-> TRUE,
     lines |-> <<[kw |-> "table", name |-> "Orders"],
                 [kw |-> "column", name |-> "Qty"],
                 [kw |-> "prop", key |-> "displayFolder", value |-> colFolder],
                 [kw |-> "prop", key |-> "dataType", value |-> "int64"],
                 IF start = NoStart THEN [kw |-> "measure", name |-> "Rows"]
                 ELSE [kw |-> "measure", name |-> "Rows", start |-> start],
                 [kw |-> "text", text |-> "COUNTROWS(Orders)"],
                 [kw |-> "text", text |-> more],
                 [kw |-> "prop", key |-> "displayFolder", value |-> measFolder],
                 [kw |-> "prop", key |-> "formatString", value |-> "#,0"],
                 [kw |-> "prop", key |-> "lineageTag", value |-> "m1"],
                 [kw |-> "partition", name |-> "Orders"],
                 [kw |-> "prop", key |-> "mode", value |-> "import"]>>]

FolderDirs ==
    {TableDir(FolderFile(colFolder, start, more, measFolder)) :
        colFolder \in {"Keys", "Key measures"},
        start \in {NoStart, "", "1 +"},
        more \in {"", "+ [Base]", "+ [Total measure x]"},
        measFolder \in {"Totals", "By partition"}}

TmdlDirs == Directories \cup {DirModel} \cup TableDirs \cup RelsDirs \cup PartDirs \cup FolderDirs

\* parser = TMDLParser(base_dir)
Construct ==
    /\ tpc = "none"
    /\ \E d \in TmdlDirs : tdir' = d
    /\ tpc' = "constructed"
    /\ parser' = NewParser
    /\ tret' = NoReturn
    /\ tprev' = NoReturn
    /\ UNCHANGED <<xvars, mvars, qvars>>

\* parser.parse_project()
ParseProject ==
    /\ tpc # "none"
    /\ \E r \in {parse_project(parser, tdir)} :
          /\ parser' = r.self
          /\ tret' = IF r.exc = "none"
                     THEN [op |-> "parse_project", on |-> tdir, exc |-> "none",
                           opened |-> r.opened, value |-> r.value]
                     ELSE [op |-> "parse_project", on |-> tdir, exc |-> r.exc,
                           opened |-> r.opened]
    /\ tprev' = tret
    /\ tpc' = "parse_project"
    /\ UNCHANGED tdir
    /\ UNCHANGED <<xvars, mvars, qvars>>

\* parser.generate_clean_json()
GenerateCleanJson ==
    /\ tpc # "none"
    /\ \E r \in {generate_clean_json(parser, tdir)} :
          /\ parser' = r.self
          /\ tret' = IF r.exc = "none"
                     THEN [op |-> "generate_clean_json", on |-> tdir, exc |-> "none",
                           value |-> r.schema]
                     ELSE [op |-> "generate_clean_json", on |-> tdir, exc |-> r.exc]
    /\ tprev' = tret
    /\ tpc' = "generate_clean_json"
    /\ UNCHANGED tdir
    /\ UNCHANGED <<xvars, mvars, qvars>>

\* the project directory is removed while the object lives
RemoveDirectory ==
    /\ tpc # "none"
    /\ tdir.exists
    /\ tdir' = DirMissing
    /\ tpc' = "removed"
    /\ UNCHANGED <<parser, tret, tprev>>
    /\ UNCHANGED <<xvars, mvars, qvars>>

\* a sequence without its element at position i
Without(q, i) == SubSeq(q, 1, i - 1) \o SubSeq(q, i + 1, Len(q))

\* a file of the tables directory is deleted while the object lives
DeleteTableFile ==
    /\ tpc # "none"
    /\ tdir.exists
    /\ tdir.tables.kind = "dir"
    /\ \E i \in 1..Len(tdir.tables.files) :
         tdir' = [tdir EXCEPT !.tables.files = Without(tdir.tables.files, i)]
    /\ tpc' = "deleted"
    /\ UNCHANGED <<parser, tret, tprev>>
    /\ UNCHANGED <<xvars, mvars, qvars>>

NextTmdl ==
    \/ Construct
    \/ ParseProject
    \/ GenerateCleanJson
    \/ RemoveDirectory
    \/ DeleteTableFile

InitTmdl == RunIdle /\ ManagerIdle /\ QueryIdle /\ NoParser

SpecTmdl == InitTmdl /\ [][NextTmdl]_vars

(***************************************************************************)
(* Properties                                                              *)
(***************************************************************************)
Finished(c) == pc[c] \in {"saved", "returned"}

\* C1: every extraction call persists under a snapshot id that no other
\* extraction call uses, so no stored document is ever written a second time.
C1_SnapshotIdsUnique ==
    \A id \in DOMAIN writes : writes[id] <= 1

\* the measures the payload of a request holds, each with its table's name
FoundMeasures(r) ==
    IF r.kind = "pbix"
    THEN IF r.payload.zip /\ r.payload.schema.kind = "json"
            /\ Has(r.payload.schema.data, "model")
            /\ Has(r.payload.schema.data.model, "tables")
         THEN LET ts == r.payload.schema.data.model.tables
              IN UNION {{[name |-> Get(ts[i], "measures", <<>>)[j].name,
                          table |-> ts[i].name] :
                            j \in 1..Len(Get(ts[i], "measures", <<>>))} : i \in 1..Len(ts)}
         ELSE {}
    ELSE IF r.payload.exists /\ r.payload.tables.kind = "dir"
         THEN LET fs == SelectSeq(r.payload.tables.files, IsTmdl)
                  ls(i) == fs[i].content.lines
              IN UNION {{[name |-> ls(i)[j].name,
                          table |-> SelectSeq(ls(i), IsTableLine)[1].name] :
                            j \in {k \in 1..Len(ls(i)) : ls(i)[k].kw = "measure"}} :
                                i \in 1..Len(fs)}
         ELSE {}

CanonicalShape(S) ==
    /\ {"tables", "relationships", "measures"} \subseteq DOMAIN S
    /\ \A i \in 1..Len(S.tables) :
         /\ {"name", "columns"} \subseteq DOMAIN S.tables[i]
         /\ \A j \in 1..Len(S.tables[i].columns) :
              {"name", "dataType", "summarizeBy"} \subseteq DOMAIN S.tables[i].columns[j]

MeasuresLifted(r, S) ==
    \A m \in FoundMeasures(r) :
        Cardinality({i \in 1..Len(S.measures) :
                        S.measures[i].name = m.name /\ S.measures[i].table = m.table}) = 1

\* C2: for both source kinds the schema an extraction call returns has the
\* canonical shape: top-level measures, each measure of the source once and
\* tagged with its table, tables with name and columns (name, dataType,
\* summarizeBy), and a relationships array.
C2_CanonicalShape ==
    \A c \in Callers :
        Finished(c) => CanonicalShape(result[c]) /\ MeasuresLifted(req[c], result[c])

IsScenarioE(r) ==
    /\ r.kind = "pbix"
    /\ r.payload.zip
    /\ r.payload.schema.kind = "notjson"
    /\ r.payload.layouts # <<>>
    /\ \A i \in 1..Len(r.payload.layouts) : r.payload.layouts[i].kind = "json"

\* C3: extract_from_pbix on a package whose schema entry is not valid JSON and
\* whose layout entry is valid does not raise, returns no tables and no
\* relationships, and still returns (and persists) the layout's visualizations.
C3_BadSchemaStillReturnsLayout ==
    \A c \in Callers :
        (IsScenarioE(req[c]) /\ pc[c] # "called") =>
            /\ pc[c] # "raised"
            /\ result[c].tables = <<>>
            /\ result[c].relationships = <<>>
            /\ result[c].visualizations # <<>>
            /\ (Finished(c) => load_schema(store, sid[c]) # NotFound)

AfterOpen == {"zip_open", "after_schema", "after_datamodel", "after_connections",
              "after_layout", "returned"}

\* C4: once the archive has opened, the four-strategy extractor never raises,
\* runs its four strategies in order whatever the earlier ones did, and returns
\* exactly the arrays tables, relationships and visualizations, all empty when
\* none of the four entries is present.
C4_AlwaysThreeArrays ==
    variant = "four" =>
        /\ xpc \in AfterOpen => xraised = "none"
        /\ xpc = "raised" => \A s \in Strategies : status[s] = "pending"
        /\ status["datamodel"] # "pending" => status["schema"] # "pending"
        /\ status["connections"] # "pending" => status["datamodel"] # "pending"
        /\ status["layout"] # "pending" => status["connections"] # "pending"
        /\ xpc = "returned" =>
             /\ DOMAIN metadata = {"tables", "relationships", "visualizations"}
             /\ \A s \in Strategies : status[s] # "pending"
             /\ (\A s \in Strategies : status[s] = "absent") => metadata = EmptyMetadata

\* a run whose schema strategy failed and whose three later strategies all added
C4_Witness ==
    /\ variant = "four" /\ xpc = "returned"
    /\ status["schema"] = "failed"
    /\ added["datamodel"].tables > 0
    /\ added["connections"].tables > 0
    /\ added["layout"].visualizations > 0

\* C5: a strategy of the four-strategy extractor that failed has contributed
\* no table, relationship or visualization to the returned result.
C5_FailedStrategyAddsNothing ==
    (variant = "four" /\ xpc = "returned") =>
        \A s \in Strategies : status[s] = "failed" => added[s] = NoneAdded

\* C6: the result of the four-strategy extractor never holds two table
\* entries with the same name.
C6_NoDuplicateTableNames ==
    (variant = "four" /\ xpc = "returned") =>
        \A i, j \in 1..Len(metadata.tables) :
            i # j => metadata.tables[i].name # metadata.tables[j].name

\* C7: the relationships of the four-strategy extractor's result never hold
\* two entries with the same (fromTable, fromColumn, toTable, toColumn).
C7_NoDuplicateRelationships ==
    (variant = "four" /\ xpc = "returned") =>
        \A i, j \in 1..Len(metadata.relationships) :
            i # j => metadata.relationships[i] # metadata.relationships[j]

\* C8: once extract_pbix_metadata has ended, by return or by exception, the
\* temporary file it created no longer exists.
C8_TempFileRemoved ==
    xpc \in {"returned", "raised"} => ~tmpFile

Digits == {DigitChars[i] : i \in 1..10}

IsSnapshotId(id, kind) ==
    /\ Len(id) = 19
    /\ SubSeq(id, 1, 5) = KindPrefix(kind) \o <<"_">>
    /\ \A i \in 6..19 : id[i] \in Digits

\* C9: when a successful extraction call returns schema S, the store holds a
\* document under an id <kind>_<14 digits> that load_schema reads back as S.
C9_PersistedBeforeReturn ==
    [][\A c \in Callers :
          (pc[c] = "saved" /\ pc'[c] = "returned") =>
              \E id \in DOMAIN store :
                  /\ IsSnapshotId(id, req[c].kind)
                  /\ load_schema(store, id) = result[c]]_vars

\* C10: when the extractor raises, the extraction call raises that same
\* exception to its caller, having invoked the extractor exactly once.
C10_ExtractorExceptionPropagates ==
    \A c \in Callers :
        /\ thrown[c] # "none" => pc[c] = "raised"
        /\ pc[c] = "raised" =>
             /\ extractor(req[c]).exc # "none"
             /\ raised[c] = extractor(req[c]).exc
             /\ ncalls[c] = 1
             /\ sid[c] = NoId

\* both extractors have raised: a payload that is no archive, a tables path
\* that is no directory
C10_Witness ==
    /\ \E c \in Callers : pc[c] = "raised" /\ raised[c] = "BadZipFile"
    /\ \E c \in Callers : pc[c] = "raised" /\ raised[c] = "NotADirectoryError"

\* C11: load_schema returns the absence value, and does not raise, when no
\* document exists for the id or the document is not valid JSON; otherwise it
\* returns the parsed document.
C11_LoadAbsentOrParsed ==
    answer.op = "load" =>
        IF answer.id \notin DOMAIN store \/ ~store[answer.id].valid
        THEN answer.value = NotFound
        ELSE /\ answer.value # NotFound
             /\ "raised" \notin DOMAIN answer.value
             /\ json_dump(answer.value) = store[answer.id]

\* load_schema has been called on a document that is not valid JSON
C11_Witness ==
    /\ answer.op = "load"
    /\ answer.id \in DOMAIN store
    /\ store[answer.id] = CorruptDoc

\* the id has the shape <kind>_<14 characters that are a date-time>
HasTimestamp(id) ==
    /\ Len(split_once(id)) = 2
    /\ Len(split_once(id)[2]) = 14
    /\ strptime(split_once(id)[2]).ok

\* of two date-times written with the same 14 digits, a is the later one
Later(a, b) == StrLess(split_once(b)[2], split_once(a)[2])

ListedOnce(schemas) ==
    /\ Len(schemas) = Cardinality(DOMAIN store)
    /\ \A id \in DOMAIN store :
          Cardinality({i \in 1..Len(schemas) : schemas[i].id = id}) = 1

\* C12: list_schemas returns one entry per stored document, newest first: of
\* two entries whose ids carry valid timestamps, the one with the later
\* timestamp comes earlier in the list.
C12_NewestFirst ==
    answer.op = "list" =>
        LET schemas == answer.value.schemas IN
        /\ ListedOnce(schemas)
        /\ \A i, j \in 1..Len(schemas) :
              (/\ HasTimestamp(schemas[i].id)
               /\ HasTimestamp(schemas[j].id)
               /\ Later(schemas[i].id, schemas[j].id)) => i < j

\* the creation time the id's 14 digits YYYYMMDDHHMMSS denote
IsCreatedOf(created, id) ==
    LET ts == split_once(id)[2]
        n == Len(created)
    IN /\ n >= 16
       /\ SubSeq(created, n - 14, n) =
             <<"-", ts[5], ts[6], "-", ts[7], ts[8], " ", ts[9], ts[10], ":",
               ts[11], ts[12], ":", ts[13], ts[14]>>
       /\ \A i \in 1..(n - 15) : IsDigit(created[i])
       /\ Number(SubSeq(created, 1, n - 15)) = Number(SubSeq(ts, 1, 4))

\* C13: list_schemas does not fail on a document whose id lacks the
\* <kind>_<YYYYMMDDHHMMSS> shape: it lists that document with creation time
\* 'Unknown' and every other document with its parsed creation time.
C13_ListingSurvivesForeignIds ==
    answer.op = "list" =>
        /\ answer.value.exc = "none"
        /\ ListedOnce(answer.value.schemas)
        /\ \A i \in 1..Len(answer.value.schemas) :
              LET e == answer.value.schemas[i]
              IN IF HasTimestamp(e.id) THEN IsCreatedOf(e.created, e.id)
                 ELSE e.created = Unknown

\* a listing of a store that holds an id with 14 characters that are no
\* date-time, an id without underscore or with a short timestamp part, and a
\* document with a valid timestamp
C13_Witness ==
    /\ answer.op = "list"
    /\ IdBadDate \in DOMAIN store
    /\ (IdNotes \in DOMAIN store \/ IdShort \in DOMAIN store)
    /\ \E id \in DOMAIN store : HasTimestamp(id)


\* parse_project, called first on a new object, has returned a result for the
\* directory of the parser
\* the first call on the object
FirstCall == tprev = NoReturn

Parsed == tpc = "parse_project" /\ tret.exc = "none" /\ FirstCall

\* the lines of tables/<stem>.tmdl when that file could be read
FileLines(dir, stem) ==
    LET fs == SelectSeq(dir.tables.files, IsTmdl)
        hit == {i \in 1..Len(fs) : fs[i].stem = stem /\ fs[i].content.readable}
    IN IF hit = {} THEN <<>> ELSE fs[CHOOSE i \in hit : TRUE].content.lines

NoPropLine(lines, key) ==
    \A j \in 1..Len(lines) : ~(lines[j].kw = "prop" /\ lines[j].key = key)

ColumnFields == {"name", "dataType", "formatString", "lineageTag", "summarizeBy",
                 "annotations"}
MeasureFields == {"name", "expression", "formatString", "lineageTag", "annotations"}
RelationshipFields == {"id", "fromTable", "fromColumn", "toTable", "toColumn", "isActive",
                       "crossFilteringBehavior", "joinOnDateBehavior"}

\* every field of the set is a key of the record, and none of the text
\* fields is Python's None
Complete(rec, fields, text) ==
    /\ fields \subseteq DOMAIN rec
    /\ \A k \in text \cap DOMAIN rec : rec[k] # None

\* C14: for any combination of present and absent property lines, every
\* column, measure and relationship parse_project produces carries every field
\* of its record, with the documented default when the line is absent
\* (dataType "", summarizeBy "none", isActive true, crossFilteringBehavior
\* "automatic"), and no field of a produced record is null or missing.
C14_EveryFieldPresentWithDefault ==
    Parsed =>
        /\ \A i \in 1..Len(tret.value.tables) :
             LET t == tret.value.tables[i].value
                 lines == FileLines(tdir, tret.value.tables[i].key)
             IN /\ \A j \in 1..Len(t.columns) :
                     /\ Complete(t.columns[j], ColumnFields, ColumnFields \ {"annotations"})
                     /\ NoPropLine(lines, "dataType") => t.columns[j].dataType = ""
                     /\ NoPropLine(lines, "summarizeBy") => t.columns[j].summarizeBy = "none"
                /\ \A j \in 1..Len(t.measures) :
                     /\ Complete(t.measures[j], MeasureFields, MeasureFields \ {"annotations"})
                     /\ NoPropLine(lines, "formatString") => t.measures[j].formatString = ""
        /\ \A i \in 1..Len(tret.value.relationships) :
             LET r == tret.value.relationships[i]
             IN /\ Complete(r, RelationshipFields, RelationshipFields \ {"isActive"})
                /\ ~Has(tdir.rels.blocks[i], "isActive") => r.isActive = TRUE
                /\ r.crossFilteringBehavior = "automatic"


\* the declarations that own a body in a table file
Declarations == {"table", "column", "measure", "partition"}

\* the annotation lines in the body of the declaration at line i: those
\* after it and before the next declaration
BodyNotes(lines, i) ==
    {j \in (i + 1)..Len(lines) :
        /\ lines[j].kw = "annotation"
        /\ \A m \in (i + 1)..j : lines[m].kw \notin Declarations}

\* the mapping holds the key with the value
Maps(mapping, key, value) ==
    \E n \in 1..Len(mapping) : mapping[n].key = key /\ mapping[n].value = value

\* the position among the declarations of its keyword of the one at line i
Rank(lines, i) == Cardinality({m \in 1..i : lines[m].kw = lines[i].kw})

\* C15: in the result of parse_table_file an annotation line inside a
\* column's body is recorded in that column's annotations, one inside a
\* measure's body in that measure's annotations, and one at table level in
\* the table's annotations.
C15_AnnotationsStayWithTheirDeclaration ==
    Parsed =>
        \A i \in 1..Len(tret.value.tables) :
            LET t == tret.value.tables[i].value
                lines == FileLines(tdir, tret.value.tables[i].key)
            IN \A d \in 1..Len(lines) : \A a \in BodyNotes(lines, d) :
                 CASE lines[d].kw = "column" ->
                        Maps(t.columns[Rank(lines, d)].annotations,
                             lines[a].key, lines[a].value)
                   [] lines[d].kw = "measure" ->
                        Maps(t.measures[Rank(lines, d)].annotations,
                             lines[a].key, lines[a].value)
                   [] lines[d].kw = "table" ->
                        Maps(t.annotations, lines[a].key, lines[a].value)
                   [] OTHER -> TRUE


\* the positions of '.' in a value
Dots(value) == {n \in 1..Len(value) : SubSeq(value, n, n) = "."}
FirstDot(value) == CHOOSE n \in Dots(value) : \A m \in Dots(value) : n <= m

\* the two halves of a value split at its first '.', without surrounding quotes
Halves(value) ==
    <<strip(SubSeq(value, 1, FirstDot(value) - 1), "'"),
      strip(SubSeq(value, FirstDot(value) + 1, Len(value)), "'")>>

\* C16: for every relationship block, fromTable and fromColumn (toTable and
\* toColumn) are the two halves of the value of the fromColumn: (toColumn:)
\* line split at its first '.', each without its surrounding quote
\* characters, whenever that value contains a '.'.
C16_SplitAtFirstDot ==
    Parsed =>
        \A i \in 1..Len(tret.value.relationships) :
            LET r == tret.value.relationships[i]
                b == tdir.rels.blocks[i]
            IN /\ (Has(b, "fromColumn") /\ Dots(b.fromColumn) # {}) =>
                    /\ r.fromTable = Halves(b.fromColumn)[1]
                    /\ r.fromColumn = Halves(b.fromColumn)[2]
               /\ (Has(b, "toColumn") /\ Dots(b.toColumn) # {}) =>
                    /\ r.toTable = Halves(b.toColumn)[1]
                    /\ r.toColumn = Halves(b.toColumn)[2]


\* C20: parse_project on a base directory that does not exist returns the
\* all-empty result {model: {}, tables: {}, relationships: []} without
\* raising and without reading any file.
C20_MissingDirectoryGivesAllEmpty ==
    (tpc = "parse_project" /\ ~tdir.exists) =>
        /\ tret.exc = "none"
        /\ tret.value = AllEmpty
        /\ tret.opened = 0

\* parse_project has answered for a missing directory on an object that
\* holds the tables or relationships of an earlier parse
C20_Witness ==
    /\ tpc = "parse_project"
    /\ ~tdir.exists
    /\ tret.exc = "none"
    /\ (parser.tables_info # <<>> \/ parser.relationships # <<>>)


IsPrefix(a, b) == Len(a) <= Len(b) /\ SubSeq(b, 1, Len(a)) = a

\* the step is the binary-scan strategy or the connections strategy
ScanOrConnectionsStep ==
    \/ xpc = "after_schema" /\ xpc' = "after_datamodel"
    \/ xpc = "after_datamodel" /\ xpc' = "after_connections"

\* C17: in the four-strategy extractor no strategy changes, removes or
\* reorders a table or relationship an earlier strategy recorded, and the
\* binary-scan and connections strategies append only tables whose name
\* equals no name already in the result, so the earliest entry of a name wins.
C17_EarlierEntriesKept ==
    [][variant = "four" =>
          /\ IsPrefix(metadata.tables, metadata'.tables)
          /\ IsPrefix(metadata.relationships, metadata'.relationships)
          /\ ScanOrConnectionsStep =>
               \A i \in (Len(metadata.tables) + 1)..Len(metadata'.tables) :
                   \A j \in 1..(i - 1) :
                       metadata'.tables[j].name # metadata'.tables[i].name]_vars

\* the schema, the binary scan and the connections strategy have each
\* appended a table, and the table of the schema is still the first
C17_Witness ==
    /\ variant = "four"
    /\ xpc = "after_layout"
    /\ added["schema"].tables > 0
    /\ added["datamodel"].tables > 0
    /\ added["connections"].tables > 0
    /\ metadata.tables[1] = table_info(TSales)


\* the step is the layout strategy of the four-strategy extractor run on the
\* layout entries f
LayoutStepOn(f) ==
    /\ variant = "four"
    /\ xpc = "after_connections"
    /\ xpc' = "after_layout"
    /\ metadata' = try_extract_from_layout(f, metadata).md
    /\ status'["layout"] = try_extract_from_layout(f, metadata).status

\* the visualType occurrences of a non-JSON entry that are no placeholder
MatchedTypes(entry) ==
    {entry.tokens[n] : n \in {m \in 1..Len(entry.tokens) :
                                Lower(entry.tokens[m]) \notin {"null", "undefined"}}}

\* the visualizations the step appended
Appended == (Len(metadata.visualizations) + 1)..Len(metadata'.visualizations)

\* C18: when a layout entry is not valid JSON, the four-strategy extractor
\* scans the entry's decoded text for visualType occurrences and appends a
\* visualization with empty fields for each distinct matched type other than
\* 'null' and 'undefined', so that an entry whose text holds such a
\* visualType yields at least one visualization.
C18_NonJsonLayoutScanned ==
    [][\A f \in LayoutFileLists : LayoutStepOn(f) =>
          \A k \in 1..Len(f) : f[k].kind = "notjson" =>
              \A t \in MatchedTypes(f[k]) :
                  \E i \in Appended :
                      metadata'.visualizations[i] = [type |-> t, fields |-> <<>>]]_vars


\* the step is the layout block of pbix_parser.py run on the layout entries f
PbixLayoutStepOn(f) ==
    /\ variant = "two"
    /\ xpc = "after_schema"
    /\ xpc' = "after_layout"
    /\ metadata' = pbix_layout(f, metadata).md
    /\ status'["layout"] = pbix_layout(f, metadata).status

\* the config of a visual container, parsed a second time when it is a string
ConfigOf(c) ==
    IF ~IsDict(c) \/ ~Has(c, "config") THEN NonObj
    ELSE IF ~IsStr(c.config) THEN c.config
    ELSE IF c.config.pystr = "valid" THEN c.config.value ELSE NonObj

HasSingleVisual(c) == IsDict(ConfigOf(c)) /\ Has(ConfigOf(c), "singleVisual")

\* one {role, field} pair per projection that has a queryRef
RECURSIVE PairsOf(_)
PairsOf(items) ==
    IF items = <<>> THEN <<>>
    ELSE LET it == Head(items)
             ps == IF IsList(it.value) THEN SelectSeq(it.value.pylist, HasQueryRef) ELSE <<>>
         IN [n \in 1..Len(ps) |-> [role |-> it.role, field |-> ps[n].queryRef]]
            \o PairsOf(Tail(items))

RecordOf(c) ==
    LET sv == ConfigOf(c).singleVisual
    IN [type |-> Get(sv, "visualType", "unknown"),
        fields |-> PairsOf(Get(sv, "projections", <<>>))]

\* the visual containers of a layout document, in order
RECURSIVE ContainersOfSections(_)
ContainersOfSections(secs) ==
    IF secs = <<>> THEN <<>>
    ELSE (IF IsDict(Head(secs)) THEN Get(Head(secs), "visualContainers", <<>>) ELSE <<>>)
         \o ContainersOfSections(Tail(secs))

ContainersOf(data) ==
    IF ~IsDict(data) THEN <<>>
    ELSE IF Has(data, "sections") THEN ContainersOfSections(data.sections)
    ELSE Get(data, "visualContainers", <<>>)

\* the records due for the entries that parse as JSON
RECURSIVE RecordsDue(_)
RecordsDue(f) ==
    IF f = <<>> THEN <<>>
    ELSE (IF Head(f).kind = "json"
          THEN LET cs == SelectSeq(ContainersOf(Head(f).data), HasSingleVisual)
               IN [n \in 1..Len(cs) |-> RecordOf(cs[n])]
          ELSE <<>>) \o RecordsDue(Tail(f))

JsonOrUndecodable(f) == \A k \in 1..Len(f) : f[k].kind \in {"json", "notutf8"}

\* C19: for every layout entry that parses as JSON the extractor appends
\* exactly one visualization per visual container whose config (parsed a
\* second time when it is a string) has singleVisual, in container order,
\* with type singleVisual.visualType ("unknown" when absent) and one
\* {role, field} pair per projection with a queryRef, repeated for identical
\* containers; the layout step leaves tables and relationships unchanged.
C19_OneVisualizationPerContainer ==
    [][\A f \in LayoutFileLists :
          (JsonOrUndecodable(f) /\ (LayoutStepOn(f) \/ PbixLayoutStepOn(f))) =>
              /\ metadata'.visualizations = metadata.visualizations \o RecordsDue(f)
              /\ metadata'.tables = metadata.tables
              /\ metadata'.relationships = metadata.relationships]_vars


\* what each part of a project gives when it is parsed on its own
ModelPart(dir) ==
    LET mfile == Get(dir, "model", NoModelFile)
    IN IF mfile.kind = "absent" THEN NoModelInfo
       ELSE IF ~mfile.readable THEN EmptyModelInfo
       ELSE parse_model_file(mfile)

RelationshipsPart(dir) ==
    IF dir.rels.kind = "absent" \/ ~dir.rels.readable THEN <<>>
    ELSE parse_relationships_file(dir.rels)

TableFilesOf(dir) ==
    IF dir.tables.kind = "dir" THEN SelectSeq(dir.tables.files, IsTmdl) ELSE <<>>

\* the project has a base directory whose tables path, if any, is a directory
Listable(dir) == dir.exists /\ dir.tables.kind # "notadir"

SameCallTwice ==
    /\ tpc \in {"parse_project", "generate_clean_json"}
    /\ tprev.op = tret.op
    /\ tprev.on = tret.on

\* C22: parsing the same unchanged TMDL directory twice (parse_project twice,
\* or generate_clean_json twice on one parser) yields equal results: the same
\* tables, columns, measures and relationships in the same order.
C22_ParsingTwiceGivesEqualSchemas ==
    SameCallTwice =>
        /\ tret.exc = tprev.exc
        /\ tret.exc = "none" => tret.value = tprev.value

\* generate_clean_json has run twice on a parser that holds a project with a
\* table, a measure and a relationship
C22_Witness ==
    /\ SameCallTwice
    /\ tpc = "generate_clean_json"
    /\ tret.exc = "none"
    /\ Len(tret.value.tables) > 0
    /\ Len(tret.value.measures) > 0
    /\ Len(tret.value.relationships) > 0


Generated == tpc = "generate_clean_json" /\ tret.exc = "none"

\* the number of measures parsed from the first n table files of the parser
RECURSIVE MeasuresBefore(_, _)
MeasuresBefore(tables_info, n) ==
    IF n = 0 THEN 0
    ELSE MeasuresBefore(tables_info, n - 1) + Len(tables_info[n].value.measures)

\* C23: in the normalized TMDL schema every measure parsed from a table file
\* appears exactly once in the top-level measures array, and its table field
\* is the name of the table entry produced from the same file.
C23_EachMeasureOnceWithItsTable ==
    Generated =>
        /\ Len(tret.value.tables) = Len(parser.tables_info)
        /\ Len(tret.value.measures) =
              MeasuresBefore(parser.tables_info, Len(parser.tables_info))
        /\ \A i \in 1..Len(parser.tables_info) :
             \A j \in 1..Len(parser.tables_info[i].value.measures) :
                LET m == tret.value.measures[MeasuresBefore(parser.tables_info, i - 1) + j]
                    parsed == parser.tables_info[i].value.measures[j]
                IN /\ m.name = parsed.name
                   /\ m.expression = parsed.expression
                   /\ m.table = tret.value.tables[i].name

\* a schema has been generated from a table file that declares a table with
\* a measure
C23_Witness ==
    /\ Generated
    /\ Len(tret.value.measures) > 0
    /\ tret.value.measures[1].table # ""


\* a call has returned on a project whose relationships file can be read
ReturnedWithRelationships ==
    /\ tpc \in {"parse_project", "generate_clean_json"}
    /\ tret.exc = "none"
    /\ tdir.exists
    /\ tdir.rels.kind = "file"
    /\ tdir.rels.readable

BodyOf(lines, i) ==
    SubSeq(lines, i + 1,
           i + Cardinality({j \in (i + 1)..Len(lines) :
                               \A m \in (i + 1)..j : lines[m].kw \notin BlockEnds}))

\* the value of the first `key:` line of a body, the default when it has none
Given(body, key, default) ==
    LET hits == {j \in 1..Len(body) : body[j].kw = "prop" /\ body[j].key = key}
    IN IF hits = {} THEN default
       ELSE body[CHOOSE j \in hits : \A k \in hits : j <= k].value

\* the number of declarations of a keyword in a file
Declared(lines, kw) == Cardinality({d \in 1..Len(lines) : lines[d].kw = kw})

\* C25: the body of a column, measure or partition declaration of a table
\* file extends to the next keyword that stands at the start of a line, or to
\* the end of the file: a keyword elsewhere in a line is no boundary and
\* declares nothing, and every property line before the boundary is read as a
\* property of the declaration.
C25_BodyEndsAtKeywordAtLineStart ==
    Parsed =>
        \A i \in 1..Len(tret.value.tables) :
            LET t == tret.value.tables[i].value
                lines == FileLines(tdir, tret.value.tables[i].key)
            IN /\ Len(t.columns) = Declared(lines, "column")
               /\ Len(t.measures) = Declared(lines, "measure")
               /\ Len(t.partitions) = Declared(lines, "partition")
               /\ \A d \in 1..Len(lines) :
                    LET body == BodyOf(lines, d)
                    IN CASE lines[d].kw = "column" ->
                              LET c == t.columns[Rank(lines, d)]
                              IN /\ c.dataType = Given(body, "dataType", "")
                                 /\ c.formatString = Given(body, "formatString", "")
                                 /\ c.lineageTag = Given(body, "lineageTag", "")
                                 /\ c.summarizeBy = Given(body, "summarizeBy", "none")
                         [] lines[d].kw = "measure" ->
                              LET m == t.measures[Rank(lines, d)]
                              IN /\ m.formatString = Given(body, "formatString", "")
                                 /\ m.lineageTag = Given(body, "lineageTag", "")
                         [] lines[d].kw = "partition" ->
                              t.partitions[Rank(lines, d)].mode = Given(body, "mode", "")
                         [] OTHER -> TRUE


\* the header of a measure declaration: the text after the keyword
HeaderOf(l) == decl_text(line_string(l), "measure")

\* the lines of a body that an expression takes, stripped, in file order
ExpressionLines(body) ==
    SelectSeq([k \in 1..Len(body) |-> strip(line_string(body[k]), " ")], IsExpressionLine)

\* C26: for a measure whose header contains '=', the name is the header text
\* before the first '=' and the expression is the header text after it
\* followed, in file order and joined by newlines, by every non-empty line of
\* the body that starts with none of formatString:, lineageTag:, annotation.
C26_ExpressionIsHeaderAndBodyLines ==
    Parsed =>
        \A i \in 1..Len(tret.value.tables) :
            LET t == tret.value.tables[i].value
                lines == FileLines(tdir, tret.value.tables[i].key)
            IN \A d \in 1..Len(lines) :
                 (lines[d].kw = "measure" /\ find(HeaderOf(lines[d]), "=") > 0) =>
                    LET h == HeaderOf(lines[d])
                        m == t.measures[Rank(lines, d)]
                    IN /\ m.name = strip(SubSeq(h, 1, find(h, "=") - 1), " ")
                       /\ m.expression =
                            join_lines(<<strip(SubSeq(h, find(h, "=") + 1, Len(h)), " ")>>
                                       \o ExpressionLines(BodyOf(lines, d)))

\* C27: when the extractor called by an extraction method of SchemaManager
\* raises, the call creates and changes no snapshot document: the step on
\* which it raises leaves the data directory as it was, and a document is
\* written only by a call whose extractor has returned.
C27_RaisingCallWritesNothing ==
    [][/\ \A c \in Callers :
            (pc[c] = "called" /\ pc'[c] = "raised") => store' = store
       /\ store' # store =>
            \E c \in Callers : /\ pc[c] = "extracted"
                               /\ pc'[c] = "saved"
                               /\ raised[c] = "none"]_vars

\* an extractor has raised while the data directory holds a snapshot
C27_Witness ==
    \E c \in Callers :
        /\ pc[c] = "raised"
        /\ thrown[c] # "none"
        /\ DOMAIN store # {}
        /\ \A id \in DOMAIN store : writes[id] = 1

\* the call is extract_from_tmdl on a directory that does not exist or that
\* holds no model file, no relationships file and no tables directory
EmptyProject(c) ==
    /\ req[c] # NoRequest
    /\ req[c].entry = "extract_from_tmdl"
    /\ req[c].payload \in {DirMissing, DirEmpty}

EmptySchema == [tables |-> <<>>, relationships |-> <<>>, measures |-> <<>>]

\* C28: extract_from_tmdl on a directory that does not exist, or that holds
\* none of the TMDL parts, does not raise: its extractor returns the schema
\* whose tables, relationships and measures are empty, it adds a snapshot
\* that holds this schema to the data directory, and it returns this schema.
C28_EmptyProjectGivesEmptySnapshot ==
    [][\A c \in Callers : EmptyProject(c) =>
          /\ (pc[c] = "called" /\ pc'[c] # "called") =>
                /\ pc'[c] = "extracted"
                /\ raised'[c] = "none"
                /\ result'[c] = EmptySchema
          /\ (pc[c] = "extracted" /\ pc'[c] # "extracted") =>
                /\ pc'[c] = "saved"
                /\ sid'[c] \notin DOMAIN store
                /\ sid'[c] \in DOMAIN store'
                /\ load_schema(store', sid'[c]) = EmptySchema
          /\ (pc[c] = "saved" /\ pc'[c] # "saved") =>
                /\ pc'[c] = "returned"
                /\ result'[c] = EmptySchema]_vars

\* the keys of a dict
Keys(d) == {d[i].key : i \in 1..Len(d)}

\* the names, without .tmdl, of the .tmdl files now in the tables directory
Stems(dir) ==
    IF dir.exists THEN {TableFilesOf(dir)[i].stem : i \in 1..Len(TableFilesOf(dir))}
    ELSE {}

\* the step is a call of parse_project that returns
ParseReturns == tpc' = "parse_project" /\ tret'.exc = "none"

\* the last call before the step was a parse_project that returned
ParseReturned == tret.op = "parse_project" /\ tret.exc = "none"

\* C29 as stated: parse_project removes no table entry an earlier
\* parse_project of the same object recorded, so the tables of a later result
\* include, by key, the tables of any earlier result, whatever has been
\* deleted in between, and a new object reports exactly the .tmdl files now
\* in the tables directory.
C29_LaterResultIncludesEarlier ==
    [][ParseReturns =>
          /\ ParseReturned => Keys(tret.value.tables) \subseteq Keys(tret'.value.tables)
          /\ parser = NewParser => Keys(tret'.value.tables) = Stems(tdir)]_vars

\* C29, amended: the object never loses a table entry, and a parse_project
\* that finds its base directory returns the tables of the object, so its
\* tables include, by key, the tables of every earlier result even when a
\* table file has been deleted in between; when the base directory is gone
\* the result has no tables, while the object keeps its entries; a new object
\* reports exactly the .tmdl files now in the tables directory.
C29_LaterResultIncludesEarlierWhileDirectoryExists ==
    [][/\ (parser # NoObject /\ parser' # NoObject) =>
            Keys(parser.tables_info) \subseteq Keys(parser'.tables_info)
       /\ ParseReturns =>
            /\ tdir.exists => Keys(tret'.value.tables) = Keys(parser'.tables_info)
            /\ ~tdir.exists => tret'.value.tables = <<>>
            /\ (ParseReturned /\ tdir.exists) =>
                  Keys(tret.value.tables) \subseteq Keys(tret'.value.tables)
            /\ parser = NewParser => Keys(tret'.value.tables) = Stems(tdir)]_vars

\* parse_project has returned the table of a file that was deleted after an
\* earlier parse_project of the same object
C29_Witness ==
    /\ tpc = "parse_project"
    /\ tprev.op = "parse_project"
    /\ tret.exc = "none"
    /\ tdir.exists
    /\ tdir.tables.kind = "dir"
    /\ Stems(tdir) # Keys(tret.value.tables)
    /\ Stems(tdir) \subseteq Keys(tret.value.tables)
    /\ tprev.exc = "none"
    /\ Keys(tprev.value.tables) = Keys(tret.value.tables)

\* the extraction method that wrote a document, told by what it holds:
\* extract_pbix_metadata returns visualizations, generate_clean_json measures
WrittenBy(doc) == IF Has(doc.value, "visualizations") THEN "pbix" ELSE "tmdl"

\* the entries list_schemas has returned for an id
ListedAs(id) ==
    {n \in 1..Len(answer.value.schemas) : answer.value.schemas[n].id = id}

\* C30: list_schemas lists every .json file of the data directory, with kind
\* pbix exactly when its id starts with pbix_ and tmdl for every other id,
\* ids that no extraction produced included; every snapshot an extraction
\* call has written is listed with the kind of that call and a creation time
\* other than Unknown.
C30_EveryDocumentListedWithKind ==
    answer.op = "list" =>
        /\ answer.value.exc = "none"
        /\ \A id \in DOMAIN store :
             /\ Cardinality(ListedAs(id)) = 1
             /\ \A n \in ListedAs(id) :
                  LET e == answer.value.schemas[n]
                  IN /\ e.type = "pbix" <=> IsPrefix(<<"p", "b", "i", "x", "_">>, id)
                     /\ e.type \in {"pbix", "tmdl"}
                     /\ id \in DOMAIN writes =>
                          /\ e.type = WrittenBy(store[id])
                          /\ e.created # Unknown

\* list_schemas has answered for a data directory that holds a snapshot of
\* extract_from_pbix, a snapshot of extract_from_tmdl and notes.json
C30_Witness ==
    /\ answer.op = "list"
    /\ IdNotes \in DOMAIN store
    /\ \E id \in DOMAIN writes : WrittenBy(store[id]) = "pbix"
    /\ \E id \in DOMAIN writes : WrittenBy(store[id]) = "tmdl"
    /\ \E n \in ListedAs(IdNotes) : answer.value.schemas[n].type = "tmdl"


====
